---- MODULE Spec2Model ----
(***************************************************************************)
(* Model of the gunud dungeon generator: generateDungeon and generateClues *)
(* with the helpers of graphUtils, dungeonBuilder and clueGenerator.       *)
(*                                                                         *)
(* A 32-bit word is a pair <<hi, lo>> of 16-bit halves, so that the       *)
(* generator's arithmetic keeps its width.  Room ids are the source's     *)
(* 0-based ids; the room with id i is rooms[i + 1].                        *)
(***************************************************************************)
EXTENDS Integers, Sequences, FiniteSets, TLC

----------------------------------------------------------------------------
(* Bind(v, F) is F(v) with v evaluated once, before F is entered *)

Bind(v, F(_)) == CHOOSE y \in {F(x) : x \in {v}} : TRUE

----------------------------------------------------------------------------
(* 32-bit arithmetic *)

Half == 2 ^ 16

Nib == 0..15

BitXor1(a, b) == IF a = b THEN 0 ELSE 1

Xor4 ==
  [a \in Nib |-> [b \in Nib |->
      BitXor1(a % 2, b % 2)
    + 2 * BitXor1((a \div 2) % 2, (b \div 2) % 2)
    + 4 * BitXor1((a \div 4) % 2, (b \div 4) % 2)
    + 8 * BitXor1(a \div 8, b \div 8)]]

Xor16(a, b) ==
    Xor4[a % 16][b % 16]
  + 16 * Xor4[(a \div 16) % 16][(b \div 16) % 16]
  + 256 * Xor4[(a \div 256) % 16][(b \div 256) % 16]
  + 4096 * Xor4[a \div 4096][b \div 4096]

Xor32(s, t) == <<Xor16(s[1], t[1]), Xor16(s[2], t[2])>>

Add32(s, t) ==
  LET lo == s[2] + t[2]
  IN  <<(s[1] + t[1] + (lo \div Half)) % Half, lo % Half>>

\* t >>> k for 0 < k < 16
Shr32(t, k) ==
  LET p == 2 ^ k
      q == 2 ^ (16 - k)
  IN  <<t[1] \div p, (t[1] % p) * q + (t[2] \div p)>>

\* low 16 bits of the product of two 16-bit numbers
MulLow16(x, y) ==
  LET x0 == x % 256
      x1 == x \div 256
      y0 == y % 256
      y1 == y \div 256
  IN  (x0 * y0 + ((x1 * y0 + x0 * y1) % 256) * 256) % Half

\* Math.imul: the low 32 bits of the product
Imul(s, t) ==
  LET a0 == s[2] % 256
      a1 == s[2] \div 256
      b0 == t[2] % 256
      b1 == t[2] \div 256
      low == (a1 * b0 + a0 * b1) * 256 + a0 * b0
      hi == a1 * b1 + (low \div Half) + MulLow16(s[1], t[2]) + MulLow16(s[2], t[1])
  IN  <<hi % Half, low % Half>>

\* t | 1
Or1(t) == <<t[1], t[2] + 1 - (t[2] % 2)>>

\* t | 61
Or61(t) == <<t[1], (t[2] \div 64) * 64 + 61 + 2 * ((t[2] \div 2) % 2)>>

\* the unsigned value of the negation of a signed 32-bit word
Neg32(t) ==
  IF t[2] = 0 THEN <<(Half - t[1]) % Half, 0>>
  ELSE <<Half - 1 - t[1], Half - t[2]>>

----------------------------------------------------------------------------
(* seedRandom *)

\* Mulberry32: the generator state after one call
NextSeed(seed) == Add32(seed, <<27947, 31221>>)

\* Mulberry32: the 32-bit output of the call that left the state at seed
Mulberry(seed) ==
  Bind(Xor32(seed, Shr32(seed, 15)), LAMBDA x1 :
  Bind(Imul(x1, Or1(seed)), LAMBDA t1 :
  Bind(Xor32(t1, Shr32(t1, 7)), LAMBDA x2 :
  Bind(Imul(x2, Or61(t1)), LAMBDA m2 :
  Bind(Xor32(t1, Add32(t1, m2)), LAMBDA t2 :
  Xor32(t2, Shr32(t2, 14)))))))

\* Math.ceil(random() * n) for the output word u
CeilMul(u, n) ==
  (u[1] * n + ((u[2] * n) \div Half)) \div Half
    + (IF (u[1] * n + ((u[2] * n) \div Half)) % Half = 0 /\ (u[2] * n) % Half = 0
       THEN 0 ELSE 1)

\* Math.floor(random() * n) for the output word u
FloorMul(u, n) == (u[1] * n + ((u[2] * n) \div Half)) \div Half

\* random() - 0.5 < 0, and random() < 0.5
BelowHalf(u) == u[1] < 32768

\* (hash << 5) - hash + char, then hash & hash: 31 * hash + char in 32 bits
HashStep(hash, char) ==
  Bind(hash[2] * 31 + char, LAMBDA lo :
  <<(hash[1] * 31 + (lo \div Half)) % Half, lo % Half>>)

\* the loop of dateToSeed over str[lo..hi], from hash
RECURSIVE HashFrom(_, _, _, _)
HashFrom(str, lo, hi, hash) ==
  IF lo > hi THEN hash
  ELSE IF lo = hi THEN HashStep(hash, str[lo])
  ELSE Bind(HashFrom(str, lo, (lo + hi) \div 2, hash), LAMBDA half :
       HashFrom(str, (lo + hi) \div 2 + 1, hi, half))

\* dateToSeed: hash * 31 + char folded into 32 bits, then Math.abs
dateToSeed(str) ==
  Bind(HashFrom(str, 1, Len(str), <<0, 0>>), LAMBDA h :
  IF h[1] >= 32768 THEN Neg32(h) ELSE h)

----------------------------------------------------------------------------
(* helpers on sequences and sets *)

Abs(n) == IF n < 0 THEN -n ELSE n

Range(seq) == {seq[k] : k \in DOMAIN seq}

MaxOf(S) == CHOOSE m \in S : \A n \in S : n <= m

MinOf(S) == CHOOSE m \in S : \A n \in S : m <= n

\* Array.prototype.filter: the elements that pass the test, in order
filter(seq, Test(_)) ==
  Bind({k \in DOMAIN seq : Test(seq[k])}, LAMBDA kept :
  [j \in 1..Cardinality(kept) |->
     seq[CHOOSE k \in kept : Cardinality({m \in kept : m < k}) = j - 1]])

\* Array.prototype.includes
Includes(seq, v) == \E k \in DOMAIN seq : seq[k] = v

\* the array without the first occurrence of v (indexOf, then splice)
RemoveFirst(seq, v) ==
  LET k == MinOf({j \in DOMAIN seq : seq[j] = v})
  IN  [j \in 1..(Len(seq) - 1) |-> IF j < k THEN seq[j] ELSE seq[j + 1]]

\* the first element of the array of triples T in loop-nesting order
LexLess(t, u) ==
  \/ t[1] < u[1]
  \/ t[1] = u[1] /\ t[2] < u[2]
  \/ t[1] = u[1] /\ t[2] = u[2] /\ t[3] < u[3]

LexMin(T) == CHOOSE t \in T : \A u \in T : u = t \/ LexLess(t, u)

RECURSIVE Reverse(_)
Reverse(seq) ==
  IF seq = <<>> THEN <<>> ELSE Append(Reverse(Tail(seq)), Head(seq))

----------------------------------------------------------------------------
(* one call of random(): the state it leaves and the word it returns *)

Draw(seed) ==
  Bind(NextSeed(seed), LAMBDA s : [seed |-> s, u |-> Mulberry(s)])

(***************************************************************************)
(* array.sort(() => random() - 0.5).  The comparator ignores its          *)
(* arguments, so the result is fixed by the order in which the engine      *)
(* calls it.  The engine is taken to be V8 (Node, Chrome), which sorts an  *)
(* array this short by finding the initial run and then inserting the rest *)
(* by binary search; every comparison draws one number and is negative     *)
(* when the number is below one half.                                      *)
(***************************************************************************)
RECURSIVE RunLength(_, _, _, _)
RunLength(n, idx, descending, seed) ==
  IF idx > n THEN [run |-> n, seed |-> seed]
  ELSE Bind(Draw(seed), LAMBDA d :
       IF BelowHalf(d.u) = descending
       THEN RunLength(n, idx + 1, descending, d.seed)
       ELSE [run |-> idx - 1, seed |-> d.seed])

RECURSIVE BinarySearch(_, _, _)
BinarySearch(left, right, seed) ==
  IF left >= right THEN [left |-> left, seed |-> seed]
  ELSE Bind(Draw(seed), LAMBDA d :
       Bind(left + ((right - left) \div 2), LAMBDA mid :
       IF BelowHalf(d.u) THEN BinarySearch(left, mid, d.seed)
       ELSE BinarySearch(mid + 1, right, d.seed)))

\* the array with the element at start moved down to left
MoveTo(a, start, left) ==
  [j \in 1..Len(a) |->
     IF j < left \/ j > start THEN a[j]
     ELSE IF j = left THEN a[start]
     ELSE a[j - 1]]

RECURSIVE InsertFrom(_, _, _)
InsertFrom(a, start, seed) ==
  IF start > Len(a) THEN [a |-> a, seed |-> seed]
  ELSE Bind(BinarySearch(1, start, seed), LAMBDA b :
       Bind(MoveTo(a, start, b.left), LAMBDA moved :
       InsertFrom(moved, start + 1, b.seed)))

sortRandom(a, seed) ==
  IF Len(a) < 2 THEN [a |-> a, seed |-> seed]
  ELSE Bind(Draw(seed), LAMBDA first :
       Bind(BelowHalf(first.u), LAMBDA descending :
       Bind(RunLength(Len(a), 3, descending, first.seed), LAMBDA r :
       Bind(IF descending
            THEN Reverse(SubSeq(a, 1, r.run)) \o SubSeq(a, r.run + 1, Len(a))
            ELSE a, LAMBDA run :
       InsertFrom(run, r.run + 1, r.seed)))))

----------------------------------------------------------------------------
(* graphUtils *)

\* the index in rooms of the object rooms.find((r) => r.id === id) returns
indexOfRoom(rooms, id) ==
  IF id + 1 \in DOMAIN rooms /\ rooms[id + 1].id = id
     /\ \A j \in 1..id : rooms[j].id # id
  THEN id + 1
  ELSE MinOf({k \in DOMAIN rooms : rooms[k].id = id})

\* rooms.find((r) => r.id === id): the first room with that id
find(rooms, id) == rooms[indexOfRoom(rooms, id)]

\* the ids some room of the frontier lists and the map does not have yet
Unvisited(rooms, distances, frontier) ==
  {n \in UNION {Range(find(rooms, c).connections) : c \in frontier} :
     n \notin DOMAIN distances}

\* one step of the search that does not test distances.has(neighborId): a room seen
\* again gets the later distance
BfsStepOverwrite(rooms, st) ==
  IF st.frontier = {} THEN st
  ELSE Bind(UNION {Range(find(rooms, c).connections) : c \in st.frontier}, LAMBDA next :
       [distances |-> [n \in next |-> st.d + 1] @@ st.distances,
        frontier |-> next, d |-> st.d + 1])

\* the rooms one step farther than the frontier get their distance
BfsStep(rooms, st) ==
  IF st.frontier = {} THEN st
  ELSE Bind(Unvisited(rooms, st.distances, st.frontier), LAMBDA next :
       [distances |-> st.distances @@ [n \in next |-> st.d + 1],
        frontier |-> next, d |-> st.d + 1])

\* n levels of the search
RECURSIVE BfsLevel(_, _, _)
BfsLevel(rooms, st, n) ==
  IF n <= 1 THEN BfsStep(rooms, st)
  ELSE Bind(BfsLevel(rooms, st, n \div 2), LAMBDA mid :
       BfsLevel(rooms, mid, n - (n \div 2)))

calculateDistances(rooms, startId) ==
  BfsLevel(rooms, [distances |-> (startId :> 0), frontier |-> {startId}, d |-> 0],
           Len(rooms)).distances

\* distances.get(id) || 0
GetOr0(distances, id) == IF id \in DOMAIN distances THEN distances[id] ELSE 0

\* adjacency by the larger of the two axis distances, equal coordinates included
withinOne(room1, room2) ==
  Abs(room1.x - room2.x) <= 1 /\ Abs(room1.y - room2.y) <= 1

areGridAdjacent(room1, room2) ==
  LET dx == Abs(room1.x - room2.x)
      dy == Abs(room1.y - room2.y)
      dist == dx + dy
  IN  dist = 1 \/ (dist = 2 /\ dx = 1 /\ dy = 1)

\* one step of dfs(roomId, parentId) of countLoops, the calls in progress kept on a
\* stack: the call on top looks at its k-th connection, or returns after the last
DfsStep(rooms, st) ==
  IF st.stack = <<>> THEN st
  ELSE LET top == st.stack[Len(st.stack)]
           conns == find(rooms, top.roomId).connections
           neighborId == conns[top.k]
           advanced == [st.stack EXCEPT ![Len(st.stack)].k = @ + 1]
       IN  IF top.k > Len(conns)
           THEN [st EXCEPT !.stack = SubSeq(@, 1, Len(@) - 1)]
           ELSE IF neighborId \notin st.visited
           THEN [stack |-> Append(advanced, [roomId |-> neighborId,
                                             parentId |-> top.roomId, k |-> 1]),
                 visited |-> st.visited \cup {neighborId},
                 loopCount |-> st.loopCount]
           ELSE IF neighborId # top.parentId
           THEN [st EXCEPT !.stack = advanced, !.loopCount = @ + 1]
           ELSE [st EXCEPT !.stack = advanced]

\* n steps of the traversal
RECURSIVE Dfs(_, _, _)
Dfs(rooms, st, n) ==
  IF n <= 1 THEN DfsStep(rooms, st)
  ELSE Bind(Dfs(rooms, st, n \div 2), LAMBDA mid : Dfs(rooms, mid, n - (n \div 2)))

\* the steps a traversal takes at most: one per connection listed and one per return
listed(rooms) ==
  Cardinality({p \in (DOMAIN rooms) \X (0..Len(rooms)) :
                 p[2] <= Len(rooms[p[1]].connections)})

countLoops(rooms) ==
  IF Len(rooms) > 0
  THEN Dfs(rooms, [stack |-> <<[roomId |-> rooms[1].id, parentId |-> -1, k |-> 1]>>,
                   visited |-> {rooms[1].id}, loopCount |-> 0],
           listed(rooms)).loopCount \div 2
  ELSE 0

\* only a.connections.push(b)
ConnectOneWay(rooms, a, b) ==
  [rooms EXCEPT ![indexOfRoom(rooms, a)].connections = Append(@, b)]

\* a.connections.push(b); b.connections.push(a)
Connect(rooms, a, b) ==
  [rooms EXCEPT ![indexOfRoom(rooms, a)].connections = Append(@, b),
                ![indexOfRoom(rooms, b)].connections = Append(@, a)]

\* the (room, neighbor, candidate) positions at which ensureLoops can close a triangle
LoopTriples(rooms) ==
  LET all == UNION {UNION {{<<r, n, c>> :
                             c \in DOMAIN find(rooms, rooms[r].connections[n]).connections} :
                           n \in DOMAIN rooms[r].connections} :
                    r \in DOMAIN rooms}
  IN  {t \in all :
         LET room == rooms[t[1]]
             neighbor == find(rooms, room.connections[t[2]])
             candidateId == neighbor.connections[t[3]]
         IN  /\ candidateId # room.id
             /\ ~Includes(room.connections, candidateId)
             /\ areGridAdjacent(room, find(rooms, candidateId))}

\* the candidate id at a position of LoopTriples
CandidateAt(rooms, t) ==
  find(rooms, rooms[t[1]].connections[t[2]]).connections[t[3]]

RECURSIVE ensureLoops(_, _)
ensureLoops(rooms, minLoops) ==
  IF countLoops(rooms) >= minLoops THEN rooms
  ELSE Bind(LoopTriples(rooms), LAMBDA triples :
       IF triples = {} THEN rooms
       ELSE Bind(LexMin(triples), LAMBDA t :
            Bind(Connect(rooms, rooms[t[1]].id, CandidateAt(rooms, t)), LAMBDA joined :
            ensureLoops(joined, minLoops))))

getMaxDistance(rooms, entranceId) ==
  MaxOf(Range(calculateDistances(rooms, entranceId)))

\* rooms after the two splices of isConnectedWithoutEdge
SpliceEdge(rooms, room1Id, room2Id) ==
  [rooms EXCEPT ![indexOfRoom(rooms, room1Id)].connections = RemoveFirst(@, room2Id),
                ![indexOfRoom(rooms, room2Id)].connections = RemoveFirst(@, room1Id)]

\* isConnectedWithoutEdge returning on a disconnected graph before it restores the edge
isConnectedNoRestore(rooms, room1Id, room2Id) ==
  IF ~Includes(find(rooms, room1Id).connections, room2Id)
     \/ ~Includes(find(rooms, room2Id).connections, room1Id)
  THEN [isConnected |-> TRUE, rooms |-> rooms]
  ELSE Bind(SpliceEdge(rooms, room1Id, room2Id), LAMBDA cut :
       Bind(DOMAIN calculateDistances(cut, cut[1].id), LAMBDA visited :
       [isConnected |-> Cardinality(visited) = Len(rooms),
        rooms |-> IF Cardinality(visited) = Len(rooms)
                  THEN Connect(cut, room1Id, room2Id) ELSE cut]))

\* isConnectedWithoutEdge: its result and the rooms it leaves behind
isConnectedWithoutEdge(rooms, room1Id, room2Id) ==
  IF ~Includes(find(rooms, room1Id).connections, room2Id)
     \/ ~Includes(find(rooms, room2Id).connections, room1Id)
  THEN [isConnected |-> TRUE, rooms |-> rooms]
  ELSE Bind(SpliceEdge(rooms, room1Id, room2Id), LAMBDA cut :
       Bind(DOMAIN calculateDistances(cut, cut[1].id), LAMBDA visited :
       [isConnected |-> Cardinality(visited) = Len(rooms),
        rooms |-> Connect(cut, room1Id, room2Id)]))

----------------------------------------------------------------------------
(* dungeonBuilder *)

\* the four cardinal offsets, in the order every phase lists them
adjacentOffsets == <<<<0, 1>>, <<0, -1>>, <<1, 0>>, <<-1, 0>>>>

\* rooms.push of a new room hanging off parentId; the parent gets the new id
addRoom(rooms, newId, x, y, parentId) ==
  Append([rooms EXCEPT ![indexOfRoom(rooms, parentId)].connections = Append(@, newId)],
         [id |-> newId, x |-> x, y |-> y, connections |-> <<parentId>>])

\* every offset, whether its cell is taken or not
AllOffsets(room, offsets, usedPositions) == DOMAIN offsets

\* the positions of the offsets (in the given order) that lead from room to a free cell
FreeOffsets(room, offsets, usedPositions) ==
  {k \in DOMAIN offsets :
     <<room.x + offsets[k][1], room.y + offsets[k][2]>> \notin usedPositions}

\* the edges the too-short loop may remove from one room, in connection order
EdgesOfRoom(rooms, entranceId, distances, room) ==
  LET Keep(neighborId) ==
        /\ neighborId > room.id
        /\ neighborId # entranceId
        /\ Len(find(rooms, neighborId).connections) > 1
  IN  IF Len(room.connections) <= 1 \/ room.id = entranceId THEN <<>>
      ELSE Bind(filter(room.connections, Keep), LAMBDA kept :
           [j \in 1..Len(kept) |->
              [roomId |-> room.id, neighborId |-> kept[j],
               distDiff |-> Abs(GetOr0(distances, room.id)
                                - GetOr0(distances, kept[j]))]])

\* the edges of rooms[lo..hi], in room order
RECURSIVE EdgesFrom(_, _, _, _, _)
EdgesFrom(rooms, entranceId, distances, lo, hi) ==
  IF lo > hi THEN <<>>
  ELSE IF lo = hi THEN EdgesOfRoom(rooms, entranceId, distances, rooms[lo])
  ELSE EdgesFrom(rooms, entranceId, distances, lo, (lo + hi) \div 2)
         \o EdgesFrom(rooms, entranceId, distances, (lo + hi) \div 2 + 1, hi)

\* the edges left in the order in which they were collected
unsorted(edges, lo, hi) == edges

\* edges.sort((a, b) => b.distDiff - a.distDiff): stable, largest difference first;
\* the edges with a difference in lo..hi
RECURSIVE SortByDiff(_, _, _)
SortByDiff(edges, lo, hi) ==
  LET Is(e) == e.distDiff = lo
  IN  IF lo > hi THEN <<>>
      ELSE IF lo = hi THEN filter(edges, Is)
      ELSE SortByDiff(edges, (lo + hi) \div 2 + 1, hi)
             \o SortByDiff(edges, lo, (lo + hi) \div 2)

removableEdges(rooms, entranceId) ==
  Bind(calculateDistances(rooms, entranceId), LAMBDA distances :
  Bind(EdgesFrom(rooms, entranceId, distances, 1, Len(rooms)), LAMBDA edges :
  SortByDiff(edges, 0, MaxOf({0} \cup {edges[k].distDiff : k \in DOMAIN edges}))))

\* room.connections.filter((id) => id !== neighborId), on both ends
filterEdge(rooms, roomId, neighborId) ==
  LET NotN(id) == id # neighborId
      NotR(id) == id # roomId
  IN  [rooms EXCEPT ![indexOfRoom(rooms, roomId)].connections = filter(@, NotN),
                    ![indexOfRoom(rooms, neighborId)].connections = filter(@, NotR)]

\* an edge removed without the connectivity test
tryRemoveUnchecked(st, edge) ==
  [removed |-> TRUE, rooms |-> filterEdge(st.rooms, edge.roomId, edge.neighborId)]

\* the body of for (const edge of edges) for one edge
tryRemove(st, edge) ==
  Bind(isConnectedWithoutEdge(st.rooms, edge.roomId, edge.neighborId), LAMBDA c :
  IF c.isConnected
  THEN [removed |-> TRUE, rooms |-> filterEdge(c.rooms, edge.roomId, edge.neighborId)]
  ELSE [removed |-> FALSE, rooms |-> c.rooms])

\* for (const edge of edges) over edges[lo..hi]: the first edge whose removal keeps the
\* graph connected is removed and the loop is left
RECURSIVE removeFirstSafe(_, _, _, _)
removeFirstSafe(st, edges, lo, hi) ==
  IF st.removed \/ lo > hi THEN st
  ELSE IF lo = hi THEN tryRemove(st, edges[lo])
  ELSE Bind(removeFirstSafe(st, edges, lo, (lo + hi) \div 2), LAMBDA half :
       removeFirstSafe(half, edges, (lo + hi) \div 2 + 1, hi))

\* one iteration of the too-short loop of ensureDistanceRange
removeShortcut(rooms, entranceId) ==
  Bind(removableEdges(rooms, entranceId), LAMBDA edges :
  removeFirstSafe([removed |-> FALSE, rooms |-> rooms], edges, 1, Len(edges)))

\* the first room, in room order, at the largest distance
farthestRoomOf(rooms, distances) ==
  Bind(MaxOf(Range(distances)), LAMBDA maxDst :
  rooms[MinOf({k \in DOMAIN rooms :
                 /\ rooms[k].id \in DOMAIN distances
                 /\ distances[rooms[k].id] = maxDst})])

\* the extension iteration reporting an extension although no cell was free
extendFarthestAlways(rooms, entranceId, usedPositions) ==
  Bind(calculateDistances(rooms, entranceId), LAMBDA distances :
  Bind(farthestRoomOf(rooms, distances), LAMBDA farthestRoom :
  Bind(FreeOffsets(farthestRoom, adjacentOffsets, usedPositions), LAMBDA free :
  IF free = {}
  THEN [extended |-> TRUE, rooms |-> rooms, usedPositions |-> usedPositions]
  ELSE LET o == adjacentOffsets[MinOf(free)]
           nx == farthestRoom.x + o[1]
           ny == farthestRoom.y + o[2]
       IN  [extended |-> TRUE,
            rooms |-> addRoom(rooms, Len(rooms), nx, ny, farthestRoom.id),
            usedPositions |-> usedPositions \cup {<<nx, ny>>}])))

\* one iteration of the extension loop of ensureDistanceRange
extendFarthest(rooms, entranceId, usedPositions) ==
  Bind(calculateDistances(rooms, entranceId), LAMBDA distances :
  Bind(farthestRoomOf(rooms, distances), LAMBDA farthestRoom :
  Bind(FreeOffsets(farthestRoom, adjacentOffsets, usedPositions), LAMBDA free :
  IF free = {}
  THEN [extended |-> FALSE, rooms |-> rooms, usedPositions |-> usedPositions]
  ELSE LET o == adjacentOffsets[MinOf(free)]
           nx == farthestRoom.x + o[1]
           ny == farthestRoom.y + o[2]
       IN  [extended |-> TRUE,
            rooms |-> addRoom(rooms, Len(rooms), nx, ny, farthestRoom.id),
            usedPositions |-> usedPositions \cup {<<nx, ny>>}])))

\* the rooms nearer the entrance than farRoom, wherever they lie and however near
closerAnywhere(rooms, distances, farRoom, minDist) ==
  {k \in DOMAIN rooms :
     /\ rooms[k].id # farRoom.id
     /\ ~Includes(farRoom.connections, rooms[k].id)
     /\ GetOr0(distances, rooms[k].id) < GetOr0(distances, farRoom.id) - 1}

\* the positions of the rooms the too-long loop may link farRoom to
closerRooms(rooms, distances, farRoom, minDist) ==
  {k \in DOMAIN rooms :
     /\ rooms[k].id # farRoom.id
     /\ ~Includes(farRoom.connections, rooms[k].id)
     /\ areGridAdjacent(farRoom, rooms[k])
     /\ GetOr0(distances, rooms[k].id) < GetOr0(distances, farRoom.id) - 1
     /\ GetOr0(distances, rooms[k].id) >= minDist - 2}

\* one iteration of the too-long loop of ensureDistanceRange
addShortcut(rooms, entranceId, minDist, maxDist) ==
  Bind(calculateDistances(rooms, entranceId), LAMBDA distances :
  Bind({k \in DOMAIN rooms : GetOr0(distances, rooms[k].id) > maxDist}, LAMBDA farRooms :
  IF farRooms = {} THEN [added |-> FALSE, rooms |-> rooms]
  ELSE Bind(rooms[MinOf(farRooms)], LAMBDA farRoom :
       Bind(closerRooms(rooms, distances, farRoom, minDist), LAMBDA closer :
       IF closer = {} THEN [added |-> FALSE, rooms |-> rooms]
       ELSE [added |-> TRUE,
             rooms |-> Connect(rooms, farRoom.id, rooms[MinOf(closer)].id)]))))

\* candidateParents without the filters: the ids of all rooms
anyParent(rooms, entranceId, treasureId) ==
  [k \in 1..Len(rooms) |-> rooms[k].id]

\* the ids of candidateParents of addDeadEnds, in room order
candidateParentsOf(rooms, entranceId, treasureId) ==
  Bind(calculateDistances(rooms, entranceId), LAMBDA distances :
  Bind(calculateDistances(rooms, treasureId), LAMBDA distancesToTreasure :
  LET treasureDist == GetOr0(distances, treasureId)
      Optimal(r) ==
        GetOr0(distances, r.id) + GetOr0(distancesToTreasure, r.id) <= treasureDist + 1
      Middle(r) ==
        GetOr0(distances, r.id) >= 1 /\ GetOr0(distances, r.id) < treasureDist - 1
  IN  Bind(filter(rooms, Optimal), LAMBDA optimalPathRooms :
      Bind(filter(optimalPathRooms, Middle), LAMBDA middleRooms :
      Bind(IF Len(middleRooms) > 0 THEN middleRooms ELSE optimalPathRooms, LAMBDA chosen :
      [k \in 1..Len(chosen) |-> chosen[k].id])))))

\* for (j = length - 1; j > 0; j--) swap offsets[j] and offsets[floor(random() * (j + 1))]
RECURSIVE shuffleOffsets(_, _, _)
shuffleOffsets(offsets, j, seed) ==
  IF j <= 0 THEN [a |-> offsets, seed |-> seed]
  ELSE Bind(Draw(seed), LAMBDA d :
       Bind(FloorMul(d.u, j + 1), LAMBDA k :
       Bind([offsets EXCEPT ![j + 1] = offsets[k + 1], ![k + 1] = offsets[j + 1]],
            LAMBDA swapped :
       shuffleOffsets(swapped, j - 1, d.seed))))

\* the positions of the shuffled offsets a dead end may take: free and not negative
deadEndOffsets(parentRoom, offsets, usedPositions) ==
  {k \in FreeOffsets(parentRoom, offsets, usedPositions) :
     /\ parentRoom.x + offsets[k][1] >= 0
     /\ parentRoom.y + offsets[k][2] >= 0}

\* one iteration of the loop of addDeadEnds
addDeadEnd(rooms, candidateParents, seed, usedPositions) ==
  Bind(Draw(seed), LAMBDA d :
  Bind(find(rooms, candidateParents[FloorMul(d.u, Len(candidateParents)) + 1]),
       LAMBDA parentRoom :
  Bind(shuffleOffsets(adjacentOffsets, Len(adjacentOffsets) - 1, d.seed), LAMBDA sh :
  Bind(deadEndOffsets(parentRoom, sh.a, usedPositions), LAMBDA ok :
  IF ok = {}
  THEN [rooms |-> rooms, usedPositions |-> usedPositions, seed |-> sh.seed]
  ELSE LET o == sh.a[MinOf(ok)]
           newX == parentRoom.x + o[1]
           newY == parentRoom.y + o[2]
       IN  [rooms |-> addRoom(rooms, Len(rooms), newX, newY, parentRoom.id),
            usedPositions |-> usedPositions \cup {<<newX, newY>>},
            seed |-> sh.seed]))))

\* the positions of the rooms the entrance can be linked to
linkableRooms(rooms, entrance) ==
  {k \in DOMAIN rooms :
     /\ rooms[k].id # entrance.id
     /\ ~Includes(entrance.connections, rooms[k].id)
     /\ areGridAdjacent(entrance, rooms[k])}

RECURSIVE ensureEntranceConnections(_, _, _, _)
ensureEntranceConnections(rooms, entranceId, usedPositions, minConnections) ==
  Bind(find(rooms, entranceId), LAMBDA entrance :
  IF Len(entrance.connections) >= minConnections
  THEN [rooms |-> rooms, usedPositions |-> usedPositions]
  ELSE Bind(linkableRooms(rooms, entrance), LAMBDA linkable :
       IF linkable # {}
       THEN Bind(Connect(rooms, entranceId, rooms[MinOf(linkable)].id), LAMBDA linked :
            ensureEntranceConnections(linked, entranceId, usedPositions, minConnections))
       ELSE Bind(FreeOffsets(entrance, adjacentOffsets, usedPositions), LAMBDA free :
            IF free = {}
            THEN [rooms |-> rooms, usedPositions |-> usedPositions]
            ELSE LET o == adjacentOffsets[MinOf(free)]
                     nx == entrance.x + o[1]
                     ny == entrance.y + o[2]
                 IN  Bind(addRoom(rooms, Len(rooms), nx, ny, entranceId), LAMBDA grown :
                     Bind(usedPositions \cup {<<nx, ny>>}, LAMBDA used :
                     IF Len(find(grown, entranceId).connections) < minConnections
                     THEN [rooms |-> grown, usedPositions |-> used]
                     ELSE ensureEntranceConnections(grown, entranceId, used,
                                                    minConnections))))))

----------------------------------------------------------------------------
(* the date strings generation is run on *)

\* the first days of January 2026 that are generated
NumDays == 3

TwoDigits(n) == <<48 + (n \div 10), 48 + (n % 10)>>

\* the character codes of YYYY-MM-DD, the form of getTodayDateString
isoDate(y, m, d) ==
  TwoDigits(y \div 100) \o TwoDigits(y % 100) \o <<45>> \o TwoDigits(m)
  \o <<45>> \o TwoDigits(d)

\* dates whose dungeons take the rarer branches of the builder, a date whose entrance
\* gets a new room from ensureEntranceConnections, a date whose shortcut starts from
\* a room 3 from the entrance, a date whose clues take a second attempt and a date
\* whose ten attempts all fail
KeyDates ==
  {isoDate(2026, 2, 10), isoDate(2026, 6, 14), isoDate(2026, 7, 31),
   isoDate(2026, 11, 6), isoDate(2026, 12, 24), isoDate(2027, 2, 25),
   isoDate(2027, 8, 1), isoDate(2046, 10, 1), isoDate(2064, 4, 10)}

Dates == {isoDate(2026, 1, d) : d \in 1..NumDays} \cup KeyDates

----------------------------------------------------------------------------
(* generateDungeon *)

MinRooms == 12
RoomSpread == 5
MaxGrowAttempts == 100
MinExtra == 3
ExtraSpread == 4
MinLoops == 2
MinConnections == 3
MinDist == 5
MaxDist == 7
MaxRangeAttempts == 20
MinDeadEnds == 3
DeadEndSpread == 3
EntranceId == 0

VARIABLES
  date,             \* dateString
  pc,               \* the step generation has reached
  seed,             \* the state of the generator created by createSeededRandom
  roomCount,
  rooms,
  usedPositions,
  i,                \* the counter of the for loop in progress
  attempts,         \* the attempts counter of the while loop in progress
  extraConnections,
  treasureId,
  deadEndCount,
  candidateParents,
  dragonId,
  firstDeadEnd,     \* rooms.length when addDeadEnds was called: the id of its first room
  clueSeed,         \* the state of the generator of generateClues
  clueRooms,        \* the ids of the rooms that get a clue, in order
  attempt,          \* the counter of the retry loop of generateClues
  lastClues,        \* room id -> clue
  run,              \* the number of the run in progress
  earlier,          \* what the run before returned
  call,             \* the graph utility called on its own, with its arguments
  result,           \* what that call returned
  clock,            \* the dates the clock shows, today's first
  dateString,       \* useGame: the dateString state
  lastDateRef,      \* useGame: lastDateRef.current
  dungeonShown,     \* useGame: the dungeon state, by the seed of its Dungeon object
  gameState,        \* useGame: the gameState state
  isPractice,       \* useGame: the isPractice state
  dailyStateRef,    \* useGame: dailyStateRef.current, <<>> for null
  storage,          \* localStorage: what is kept under GAME_STATE_KEY, <<>> for nothing
  generated,        \* seed -> the Dungeon and the clues generated from it
  queue,            \* the seeds still to be generated before the hook is mounted
  steps             \* the calls of handlers of the hook that changed its state

dungeonVars ==
  <<date, pc, seed, roomCount, rooms, usedPositions, i, attempts,
    extraConnections, treasureId, deadEndCount, candidateParents, dragonId,
    firstDeadEnd>>

clueVars == <<clueSeed, clueRooms, attempt, lastClues, run, earlier>>

utilVars == <<call, result>>

gameVars ==
  <<clock, dateString, lastDateRef, dungeonShown, gameState, isPractice,
    dailyStateRef, storage, generated, queue, steps>>

vars == <<dungeonVars, clueVars, utilVars, gameVars>>

\* the GameState of a hook that is not mounted
noGame ==
  [dungeon |-> <<>>, currentRoomId |-> -1, visitedRoomIds |-> <<>>, moveCount |-> 0,
   hasWon |-> FALSE, hasLost |-> FALSE, clues |-> <<>>]

\* no hook is mounted and nothing is stored
GameIdle ==
  /\ clock = <<>>
  /\ dateString = <<>>
  /\ lastDateRef = <<>>
  /\ dungeonShown = <<>>
  /\ gameState = noGame
  /\ isPractice = FALSE
  /\ dailyStateRef = <<>>
  /\ storage = <<>>
  /\ generated = <<>>
  /\ queue = <<>>
  /\ steps = 0

\* one generator state shared by the calls: a later run goes on from where the
\* earlier run left it
sharedRandom(sd) == IF run > 1 THEN seed ELSE sd

\* createSeededRandom: the closure owns its state, which starts as the seed given
createSeededRandom(sd) == sd

DungeonInit ==
  /\ date \in Dates
  /\ pc = "start"
  /\ seed = <<0, 0>>
  /\ roomCount = 0
  /\ rooms = <<>>
  /\ usedPositions = {}
  /\ i = 0
  /\ attempts = 0
  /\ extraConnections = 0
  /\ treasureId = -1      \* not chosen yet
  /\ deadEndCount = 0
  /\ candidateParents = <<>>
  /\ dragonId = -1        \* not chosen yet
  /\ firstDeadEnd = 0

\* the seed, the room count and room 0 at the origin
Begin ==
  /\ pc = "start"
  /\ UNCHANGED utilVars
  /\ UNCHANGED gameVars
  /\ UNCHANGED firstDeadEnd
  /\ UNCHANGED clueVars
  /\ \E d \in {Draw(createSeededRandom(dateToSeed(date)))} :
       /\ seed' = d.seed
       /\ roomCount' = FloorMul(d.u, RoomSpread) + MinRooms
  /\ rooms' = <<[id |-> 0, x |-> 0, y |-> 0, connections |-> <<>>]>>
  /\ usedPositions' = {<<0, 0>>}
  /\ i' = 1
  /\ attempts' = 0
  /\ pc' = "grow"
  /\ UNCHANGED <<date, extraConnections, treasureId, deadEndCount,
                 candidateParents, dragonId>>

\* the exhaustive scan of the growth phase: the first room, then the first offset, with a free cell
fallbackCell(rs, used) ==
  Bind({c \in {<<k, o, 0>> : k \in DOMAIN rs, o \in DOMAIN adjacentOffsets} :
          c[2] \in FreeOffsets(rs[c[1]], adjacentOffsets, used)}, LAMBDA open :
  IF open = {} THEN <<>> ELSE LexMin(open))

\* rooms and usedPositions after room i is put next to parentRoom at offset o
placed(rs, used, id, parentRoom, o) ==
  [rooms |-> addRoom(rs, id, parentRoom.x + o[1], parentRoom.y + o[2], parentRoom.id),
   usedPositions |-> used \cup {<<parentRoom.x + o[1], parentRoom.y + o[2]>>}]

\* the growth loop without its retry: a room whose first attempt finds no free cell is
\* given up
growAttemptOnce(rs, used, id, tries, sd) ==
  Bind(Draw(sd), LAMBDA d :
  Bind(rs[FloorMul(d.u, Len(rs)) + 1], LAMBDA parentRoom :
  Bind(sortRandom(adjacentOffsets, d.seed), LAMBDA sh :
  Bind(FreeOffsets(parentRoom, sh.a, used), LAMBDA free :
  IF free # {}
  THEN placed(rs, used, id, parentRoom, sh.a[MinOf(free)])
         @@ [seed |-> sh.seed, next |-> TRUE]
  ELSE [rooms |-> rs, usedPositions |-> used, seed |-> sh.seed, next |-> TRUE]))))

\* one attempt of the growth loop for room id, and the scan after the last failed attempt
growAttempt(rs, used, id, tries, sd) ==
  Bind(Draw(sd), LAMBDA d :
  Bind(rs[FloorMul(d.u, Len(rs)) + 1], LAMBDA parentRoom :
  Bind(sortRandom(adjacentOffsets, d.seed), LAMBDA sh :
  Bind(FreeOffsets(parentRoom, sh.a, used), LAMBDA free :
  IF free # {}
  THEN placed(rs, used, id, parentRoom, sh.a[MinOf(free)])
         @@ [seed |-> sh.seed, next |-> TRUE]
  ELSE IF tries + 1 < MaxGrowAttempts
  THEN [rooms |-> rs, usedPositions |-> used, seed |-> sh.seed, next |-> FALSE]
  ELSE Bind(fallbackCell(rs, used), LAMBDA fb :
       IF fb # <<>>
       THEN placed(rs, used, id, rs[fb[1]], adjacentOffsets[fb[2]])
              @@ [seed |-> sh.seed, next |-> TRUE]
       ELSE [rooms |-> rs, usedPositions |-> used, seed |-> sh.seed, next |-> TRUE])))))

\* one attempt of the growth loop for room i
Grow ==
  /\ pc = "grow"
  /\ UNCHANGED utilVars
  /\ UNCHANGED gameVars
  /\ UNCHANGED firstDeadEnd
  /\ UNCHANGED clueVars
  /\ i < roomCount
  /\ \E r \in {growAttempt(rooms, usedPositions, i, attempts, seed)} :
       /\ seed' = r.seed
       /\ rooms' = r.rooms
       /\ usedPositions' = r.usedPositions
       /\ i' = IF r.next THEN i + 1 ELSE i
       /\ attempts' = IF r.next THEN 0 ELSE attempts + 1
  /\ UNCHANGED <<date, pc, roomCount, extraConnections, treasureId, deadEndCount,
                 candidateParents, dragonId>>

\* the number of extra connections is drawn once every room is placed
StartExtras ==
  /\ pc = "grow"
  /\ UNCHANGED utilVars
  /\ UNCHANGED gameVars
  /\ UNCHANGED firstDeadEnd
  /\ UNCHANGED clueVars
  /\ i >= roomCount
  /\ \E d \in {Draw(seed)} :
       /\ seed' = d.seed
       /\ extraConnections' = FloorMul(d.u, ExtraSpread) + MinExtra
  /\ i' = 0
  /\ pc' = "extra"
  /\ UNCHANGED <<date, roomCount, rooms, usedPositions, attempts, treasureId,
                 deadEndCount, candidateParents, dragonId>>

\* the candidates without the adjacency test
extraCandidatesAnywhere(rs, fromId) ==
  LET Ok(r) == r.id # fromId /\ ~Includes(rs[fromId + 1].connections, r.id)
  IN  filter(rs, Ok)

\* the rooms an extra connection from fromId may lead to
extraCandidates(rs, fromId) ==
  LET Ok(r) ==
        /\ r.id # fromId
        /\ ~Includes(rs[fromId + 1].connections, r.id)
        /\ areGridAdjacent(rs[fromId + 1], r)
  IN  filter(rs, Ok)

\* rooms[fromId].connections.push(toId); rooms[toId].connections.push(fromId)
connectByIndex(rs, fromId, toId) ==
  [rs EXCEPT ![fromId + 1].connections = Append(@, toId),
             ![toId + 1].connections = Append(@, fromId)]

\* one iteration of the extra-connection loop
extraEdge(rs, count, sd) ==
  Bind(Draw(sd), LAMBDA d :
  Bind(FloorMul(d.u, count), LAMBDA fromId :
  Bind(extraCandidates(rs, fromId), LAMBDA candidates :
  IF Len(candidates) > 0
  THEN Bind(Draw(d.seed), LAMBDA d2 :
       [rooms |-> connectByIndex(rs, fromId,
                                 candidates[FloorMul(d2.u, Len(candidates)) + 1].id),
        seed |-> d2.seed])
  ELSE [rooms |-> rs, seed |-> d.seed])))

ExtraEdge ==
  /\ pc = "extra"
  /\ UNCHANGED utilVars
  /\ UNCHANGED gameVars
  /\ UNCHANGED firstDeadEnd
  /\ UNCHANGED clueVars
  /\ i < extraConnections
  /\ \E r \in {extraEdge(rooms, roomCount, seed)} :
       /\ seed' = r.seed
       /\ rooms' = r.rooms
  /\ i' = i + 1
  /\ UNCHANGED <<date, pc, roomCount, usedPositions, attempts, extraConnections,
                 treasureId, deadEndCount, candidateParents, dragonId>>

\* ensureLoops(rooms, 2)
Loops ==
  /\ pc = "extra"
  /\ UNCHANGED utilVars
  /\ UNCHANGED gameVars
  /\ UNCHANGED firstDeadEnd
  /\ UNCHANGED clueVars
  /\ i >= extraConnections
  /\ rooms' = ensureLoops(rooms, MinLoops)
  /\ pc' = "entrance"
  /\ UNCHANGED <<date, seed, roomCount, usedPositions, i, attempts, extraConnections,
                 treasureId, deadEndCount, candidateParents, dragonId>>

\* ensureEntranceConnections(rooms, entranceId, usedPositions, 3)
Entrance ==
  /\ pc = "entrance"
  /\ UNCHANGED utilVars
  /\ UNCHANGED gameVars
  /\ UNCHANGED firstDeadEnd
  /\ UNCHANGED clueVars
  /\ \E r \in {ensureEntranceConnections(rooms, EntranceId, usedPositions,
                                          MinConnections)} :
       /\ rooms' = r.rooms
       /\ usedPositions' = r.usedPositions
  /\ attempts' = 0
  /\ pc' = "short"
  /\ UNCHANGED <<date, seed, roomCount, i, extraConnections, treasureId,
                 deadEndCount, candidateParents, dragonId>>

\* ensureDistanceRange: one iteration of the too-short loop
RemoveShortcut ==
  /\ pc = "short"
  /\ UNCHANGED utilVars
  /\ UNCHANGED gameVars
  /\ UNCHANGED firstDeadEnd
  /\ UNCHANGED clueVars
  /\ getMaxDistance(rooms, EntranceId) < MinDist
  /\ attempts < MaxRangeAttempts
  /\ attempts' = attempts + 1
  /\ \E r \in {removeShortcut(rooms, EntranceId)} :
       /\ rooms' = r.rooms
       /\ pc' = IF r.removed THEN "short" ELSE "extend"
  /\ UNCHANGED <<date, seed, roomCount, usedPositions, i, extraConnections,
                 treasureId, deadEndCount, candidateParents, dragonId>>

\* ensureDistanceRange: the too-short loop ends on its condition
ShortDone ==
  /\ pc = "short"
  /\ UNCHANGED utilVars
  /\ UNCHANGED gameVars
  /\ UNCHANGED firstDeadEnd
  /\ UNCHANGED clueVars
  /\ ~(getMaxDistance(rooms, EntranceId) < MinDist /\ attempts < MaxRangeAttempts)
  /\ pc' = "extend"
  /\ UNCHANGED <<date, seed, roomCount, rooms, usedPositions, i, attempts,
                 extraConnections, treasureId, deadEndCount, candidateParents, dragonId>>

\* ensureDistanceRange: one iteration of the extension loop
Extend ==
  /\ pc = "extend"
  /\ UNCHANGED utilVars
  /\ UNCHANGED gameVars
  /\ UNCHANGED firstDeadEnd
  /\ UNCHANGED clueVars
  /\ getMaxDistance(rooms, EntranceId) < MinDist
  /\ \E r \in {extendFarthest(rooms, EntranceId, usedPositions)} :
       /\ rooms' = r.rooms
       /\ usedPositions' = r.usedPositions
       /\ pc' = IF r.extended THEN "extend" ELSE "long"
       /\ attempts' = IF r.extended THEN attempts ELSE 0
  /\ UNCHANGED <<date, seed, roomCount, i, extraConnections, treasureId,
                 deadEndCount, candidateParents, dragonId>>

\* ensureDistanceRange: the extension loop ends on its condition
ExtendDone ==
  /\ pc = "extend"
  /\ UNCHANGED utilVars
  /\ UNCHANGED gameVars
  /\ UNCHANGED firstDeadEnd
  /\ UNCHANGED clueVars
  /\ ~(getMaxDistance(rooms, EntranceId) < MinDist)
  /\ attempts' = 0
  /\ pc' = "long"
  /\ UNCHANGED <<date, seed, roomCount, rooms, usedPositions, i, extraConnections,
                 treasureId, deadEndCount, candidateParents, dragonId>>

\* ensureDistanceRange: one iteration of the too-long loop
AddShortcut ==
  /\ pc = "long"
  /\ UNCHANGED utilVars
  /\ UNCHANGED gameVars
  /\ UNCHANGED firstDeadEnd
  /\ UNCHANGED clueVars
  /\ getMaxDistance(rooms, EntranceId) > MaxDist
  /\ attempts < MaxRangeAttempts
  /\ attempts' = attempts + 1
  /\ \E r \in {addShortcut(rooms, EntranceId, MinDist, MaxDist)} :
       /\ rooms' = r.rooms
       /\ pc' = IF r.added THEN "long" ELSE "treasure"
  /\ UNCHANGED <<date, seed, roomCount, usedPositions, i, extraConnections,
                 treasureId, deadEndCount, candidateParents, dragonId>>

\* ensureDistanceRange: the too-long loop ends on its condition
LongDone ==
  /\ pc = "long"
  /\ UNCHANGED utilVars
  /\ UNCHANGED gameVars
  /\ UNCHANGED firstDeadEnd
  /\ UNCHANGED clueVars
  /\ ~(getMaxDistance(rooms, EntranceId) > MaxDist /\ attempts < MaxRangeAttempts)
  /\ pc' = "treasure"
  /\ UNCHANGED <<date, seed, roomCount, rooms, usedPositions, i, attempts,
                 extraConnections, treasureId, deadEndCount, candidateParents, dragonId>>

\* the rooms other than the entrance at distance d, in room order
roomsAt(rs, distances, d) ==
  LET Is(r) == r.id # EntranceId /\ r.id \in DOMAIN distances /\ distances[r.id] = d
  IN  filter(rs, Is)

\* every room but the entrance, whatever its distance
anyDistance(rs, distances, lo, hi) ==
  LET Other(r) == r.id # EntranceId
  IN  filter(rs, Other)

\* validTreasureRooms after its sort, farthest first and ties in room order: the rooms
\* at a distance in lo..hi
RECURSIVE validTreasureRooms(_, _, _, _)
validTreasureRooms(rs, distances, lo, hi) ==
  IF lo > hi THEN <<>>
  ELSE IF lo = hi THEN roomsAt(rs, distances, lo)
  ELSE validTreasureRooms(rs, distances, (lo + hi) \div 2 + 1, hi)
         \o validTreasureRooms(rs, distances, lo, (lo + hi) \div 2)

\* the penalty of the fallback sort
score(dist) ==
  IF dist < MinDist THEN MinDist - dist
  ELSE IF dist > MaxDist THEN dist - MaxDist ELSE 0

\* allOtherRooms[0] with the sort left out: the first room that is not the entrance
firstOtherRoom(rs, distances) ==
  rs[MinOf({k \in DOMAIN rs : rs[k].id # EntranceId})]

\* allOtherRooms[0] after its sort: the first room, in room order, of the least penalty
fallbackTreasure(rs, distances) ==
  LET others == {k \in DOMAIN rs : rs[k].id # EntranceId}
      best == MinOf({score(GetOr0(distances, rs[k].id)) : k \in others})
  IN  rs[MinOf({k \in others : score(GetOr0(distances, rs[k].id)) = best})]

\* the treasure room: drawn among the rooms in the band, or else the fallback
chooseTreasure(rs, sd) ==
  Bind(calculateDistances(rs, EntranceId), LAMBDA distances :
  Bind(validTreasureRooms(rs, distances, MinDist, MaxDist), LAMBDA valid :
  IF Len(valid) > 0
  THEN Bind(Draw(sd), LAMBDA d :
       [treasureId |-> valid[FloorMul(d.u, Len(valid)) + 1].id, seed |-> d.seed])
  ELSE [treasureId |-> fallbackTreasure(rs, distances).id, seed |-> sd]))

PlaceTreasure ==
  /\ pc = "treasure"
  /\ UNCHANGED utilVars
  /\ UNCHANGED gameVars
  /\ UNCHANGED firstDeadEnd
  /\ UNCHANGED clueVars
  /\ \E r \in {chooseTreasure(rooms, seed)} :
       /\ seed' = r.seed
       /\ treasureId' = r.treasureId
  /\ pc' = "addDeadEnds"
  /\ UNCHANGED <<date, roomCount, rooms, usedPositions, i, attempts, extraConnections,
                 deadEndCount, candidateParents, dragonId>>

\* addDeadEnds up to its loop: the count is drawn and the parents are collected
StartDeadEnds ==
  /\ pc = "addDeadEnds"
  /\ UNCHANGED utilVars
  /\ UNCHANGED gameVars
  /\ firstDeadEnd' = Len(rooms)
  /\ UNCHANGED clueVars
  /\ \E d \in {Draw(seed)} :
       /\ seed' = d.seed
       /\ deadEndCount' = FloorMul(d.u, DeadEndSpread) + MinDeadEnds
  /\ candidateParents' = candidateParentsOf(rooms, EntranceId, treasureId)
  /\ i' = 0
  /\ pc' = "deadEnd"
  /\ UNCHANGED <<date, roomCount, rooms, usedPositions, attempts, extraConnections,
                 treasureId, dragonId>>

\* addDeadEnds: one iteration of its loop
AddDeadEnd ==
  /\ pc = "deadEnd"
  /\ UNCHANGED utilVars
  /\ UNCHANGED gameVars
  /\ UNCHANGED firstDeadEnd
  /\ UNCHANGED clueVars
  /\ i < deadEndCount
  /\ Len(candidateParents) > 0
  /\ \E r \in {addDeadEnd(rooms, candidateParents, seed, usedPositions)} :
       /\ rooms' = r.rooms
       /\ usedPositions' = r.usedPositions
       /\ seed' = r.seed
  /\ i' = i + 1
  /\ UNCHANGED <<date, pc, roomCount, attempts, extraConnections, treasureId,
                 deadEndCount, candidateParents, dragonId>>

\* the BFS of isBypassable: the treasure is reached with the candidate taken as visited
isBypassable(rs, trId, candidateId) ==
  trId \in DOMAIN BfsLevel(rs, [distances |-> (candidateId :> 0) @@ (EntranceId :> 0),
                                 frontier |-> {EntranceId}, d |-> 0],
                            Len(rs)).distances

\* every room, the entrance and the treasure included
everyRoom(rs, trId) == rs

\* the last tier alone: every room but the entrance and the treasure
lastTier(rs, trId) ==
  LET Other(r) == r.id # EntranceId /\ r.id # trId
  IN  filter(rs, Other)

\* the dragon candidates, by the three tiers
dragonCandidates(rs, trId) ==
  Bind(calculateDistances(rs, EntranceId), LAMBDA dragonDistances :
  LET treasureDist == GetOr0(dragonDistances, trId)
      Near(r) ==
        /\ r.id # EntranceId /\ r.id # trId
        /\ isBypassable(rs, trId, r.id)
        /\ GetOr0(dragonDistances, r.id) >= treasureDist - 1
        /\ GetOr0(dragonDistances, r.id) <= treasureDist + 1
      Bypass(r) == r.id # EntranceId /\ r.id # trId /\ isBypassable(rs, trId, r.id)
      Other(r) == r.id # EntranceId /\ r.id # trId
  IN  Bind(filter(rs, Near), LAMBDA near :
      Bind(IF Len(near) > 0 THEN near ELSE filter(rs, Bypass), LAMBDA any :
      IF Len(any) > 0 THEN any ELSE filter(rs, Other))))

\* dragonCandidates[Math.floor(random() * dragonCandidates.length)]
chooseDragon(rs, trId, sd) ==
  Bind(dragonCandidates(rs, trId), LAMBDA candidates :
  Bind(Draw(sd), LAMBDA d :
  [dragonId |-> candidates[FloorMul(d.u, Len(candidates)) + 1].id, seed |-> d.seed]))

\* the dragon room is chosen and the dungeon is returned
PlaceDragon ==
  /\ pc = "deadEnd"
  /\ UNCHANGED utilVars
  /\ UNCHANGED gameVars
  /\ UNCHANGED firstDeadEnd
  /\ UNCHANGED clueVars
  /\ ~(i < deadEndCount /\ Len(candidateParents) > 0)
  /\ \E r \in {chooseDragon(rooms, treasureId, seed)} :
       /\ seed' = r.seed
       /\ dragonId' = r.dragonId
  /\ pc' = "generated"
  /\ UNCHANGED <<date, roomCount, rooms, usedPositions, i, attempts, extraConnections,
                 treasureId, deadEndCount, candidateParents>>

----------------------------------------------------------------------------
(* clueGenerator: strings are sequences of character codes *)

MaxClueAttempts == 10
Guaranteed == 4

categories == <<"exits", "spatial", "manhattan", "entrance">>

RECURSIVE Digits(_)
Digits(n) == IF n < 10 THEN <<48 + n>> ELSE Append(Digits(n \div 10), 48 + (n % 10))

\* parseInt on a string that starts with a digit or with no number at all (NaN is -1)
RECURSIVE LeadingNumber(_, _, _)
LeadingNumber(str, k, acc) ==
  IF k > Len(str) \/ str[k] < 48 \/ str[k] > 57 THEN acc
  ELSE LeadingNumber(str, k + 1, acc * 10 + (str[k] - 48))

parseInt(str) ==
  IF Len(str) = 0 \/ str[1] < 48 \/ str[1] > 57 THEN -1
  ELSE LeadingNumber(str, 1, 0)

\* String.prototype.includes
StrIncludes(str, word) ==
  \E k \in 1..(Len(str) - Len(word) + 1) : SubSeq(str, k, k + Len(word) - 1) = word

sRight == <<82, 105, 103, 104, 116>>
sLeft == <<76, 101, 102, 116>>
sBelow == <<66, 101, 108, 111, 119>>
sAbove == <<65, 98, 111, 118, 101>>
sCol == <<67, 111, 108>>
sRow == <<82, 111, 119>>

\* the arrow, a space and the word
Arrow(code, word) == <<code, 32>> \o word

roomMatchesClue(candidate, clue, clueRoom, rs) ==
  IF clue.category = "exits"
  THEN Len(candidate.connections) = parseInt(clue.compact)
  ELSE IF clue.category = "spatial"
  THEN LET dx == candidate.x - clueRoom.x
           dy == candidate.y - clueRoom.y
       IN  IF StrIncludes(clue.compact, sRight) THEN dx > 0
           ELSE IF StrIncludes(clue.compact, sLeft) THEN dx < 0
           ELSE IF StrIncludes(clue.compact, sBelow) THEN dy > 0
           ELSE IF StrIncludes(clue.compact, sAbove) THEN dy < 0
           ELSE IF StrIncludes(clue.compact, sCol) THEN dx = 0
           ELSE IF StrIncludes(clue.compact, sRow) THEN dy = 0
           ELSE TRUE
  ELSE IF clue.category = "manhattan"
  THEN Abs(candidate.x - clueRoom.x) + Abs(candidate.y - clueRoom.y)
         = parseInt(clue.compact)
  ELSE IF clue.category = "entrance"
  THEN Bind(calculateDistances(rs, clueRoom.id), LAMBDA distFromClueRoom :
       /\ candidate.id \in DOMAIN distFromClueRoom
       /\ distFromClueRoom[candidate.id] = parseInt(clue.compact))
  ELSE TRUE

\* the treasure is among the candidates left, alone or not
treasureKept(clues, order, rs, trId) ==
  \A k \in DOMAIN order :
    roomMatchesClue(find(rs, trId), clues[order[k]], find(rs, order[k]), rs)

\* isSolvable: the candidates every clue of the map keeps are the treasure alone
\* (order is the insertion order of the map)
isSolvable(clues, order, rs, trId) ==
  {rs[c].id : c \in {c \in DOMAIN rs : \A k \in DOMAIN order :
      roomMatchesClue(rs[c], clues[order[k]], find(rs, order[k]), rs)}} = {trId}

\* buildSpatialClue taking y to grow upwards
buildSpatialClueYUp(dx, dy, useX) ==
  LET clue(words, compact) ==
        [category |-> "spatial", text |-> <<"The gem is ", words>>,
         compact |-> compact, icon |-> 128205]
  IN  IF useX
      THEN IF dx > 0 THEN clue("to the right of here", Arrow(8594, sRight))
           ELSE IF dx < 0 THEN clue("to the left of here", Arrow(8592, sLeft))
           ELSE clue("in the same column", Arrow(8597, sCol))
      ELSE IF dy > 0 THEN clue("above here", Arrow(8593, sAbove))
           ELSE IF dy < 0 THEN clue("below here", Arrow(8595, sBelow))
           ELSE clue("in the same row", Arrow(8596, sRow))

buildSpatialClue(dx, dy, useX) ==
  LET clue(words, compact) ==
        [category |-> "spatial", text |-> <<"The gem is ", words>>,
         compact |-> compact, icon |-> 128205]
  IN  IF useX
      THEN IF dx > 0 THEN clue("to the right of here", Arrow(8594, sRight))
           ELSE IF dx < 0 THEN clue("to the left of here", Arrow(8592, sLeft))
           ELSE clue("in the same column", Arrow(8597, sCol))
      ELSE IF dy > 0 THEN clue("below here", Arrow(8595, sBelow))
           ELSE IF dy < 0 THEN clue("above here", Arrow(8593, sAbove))
           ELSE clue("in the same row", Arrow(8596, sRow))

\* buildClue; sd is the generator state when it is called (only spatial draws)
buildClue(category, room, treasureRoom, distFromTreasure, sd) ==
  IF category = "exits"
  THEN LET exitCount == Len(treasureRoom.connections)
           plural == IF exitCount # 1 THEN <<115>> ELSE <<>>
       IN  [category |-> "exits",
            text |-> <<"The gem chamber has ", exitCount, " exit", plural>>,
            compact |-> Digits(exitCount) \o <<32, 101, 120, 105, 116>> \o plural,
            icon |-> 128279]
  ELSE IF category = "spatial"
  THEN buildSpatialClue(treasureRoom.x - room.x, treasureRoom.y - room.y,
                        BelowHalf(Draw(sd).u))
  ELSE IF category = "manhattan"
  THEN LET manhattan == Abs(treasureRoom.x - room.x) + Abs(treasureRoom.y - room.y)
       IN  [category |-> "manhattan",
            text |-> <<"The gem is ", manhattan, " grid square",
                       IF manhattan # 1 THEN <<115>> ELSE <<>>, " away">>,
            compact |-> Digits(manhattan) \o <<32, 115, 113, 46>>,
            icon |-> 128207]
  ELSE LET d == GetOr0(distFromTreasure, room.id)
       IN  [category |-> "entrance",
            text |-> <<"The gem is ", d, " steps from here">>,
            compact |-> Digits(d) \o <<32, 115, 116, 101, 112, 115>>,
            icon |-> 128682]

\* the rooms at that distance other than the treasure, the dragon room included
clueRoomsWithDragon(dungeon, distFromEntrance, d) ==
  LET Is(r) == r.id # dungeon.treasureId /\ GetOr0(distFromEntrance, r.id) = d
  IN  Bind(filter(dungeon.rooms, Is), LAMBDA sel : [k \in 1..Len(sel) |-> sel[k].id])

\* the ids of the rooms with GetOr0(distance) = d that get a clue, in room order
clueRoomsAt(dungeon, distFromEntrance, d) ==
  LET Is(r) ==
        /\ r.id # dungeon.treasureId /\ r.id # dungeon.dragonId
        /\ GetOr0(distFromEntrance, r.id) = d
  IN  Bind(filter(dungeon.rooms, Is), LAMBDA sel : [k \in 1..Len(sel) |-> sel[k].id])

\* clueRooms: the rooms that get a clue, sorted by entrance distance (stable); the
\* rooms at a distance in lo..hi
RECURSIVE clueRoomsFrom(_, _, _, _)
clueRoomsFrom(dungeon, distFromEntrance, lo, hi) ==
  IF lo > hi THEN <<>>
  ELSE IF lo = hi THEN clueRoomsAt(dungeon, distFromEntrance, lo)
  ELSE clueRoomsFrom(dungeon, distFromEntrance, lo, (lo + hi) \div 2)
         \o clueRoomsFrom(dungeon, distFromEntrance, (lo + hi) \div 2 + 1, hi)

clueRoomsOf(dungeon) ==
  Bind(calculateDistances(dungeon.rooms, dungeon.entranceId), LAMBDA distFromEntrance :
  clueRoomsFrom(dungeon, distFromEntrance, 0, MaxOf(Range(distFromEntrance))))

\* the generator state after n more calls of random(): each call adds 0x6d2b79f5
Skip(sd, n) == Add32(sd, Imul(<<0, n>>, <<27947, 31221>>))

\* assignments that draw a category for every room, the closest four included
assignAllRandom(order, sd) ==
  [cats |-> [k \in DOMAIN order |->
               categories[FloorMul(Mulberry(Skip(sd, k)), Len(categories)) + 1]],
   seed |-> Skip(sd, Len(order))]

\* assignments of one attempt by position in clueRooms: the shuffled categories for
\* the guaranteed rooms, one draw for each room after them
assign(order, sd) ==
  Bind(sortRandom(categories, sd), LAMBDA sh :
  [cats |-> [k \in DOMAIN order |->
               IF k <= Guaranteed THEN sh.a[k]
               ELSE categories[FloorMul(Mulberry(Skip(sh.seed, k - Guaranteed)),
                                        Len(categories)) + 1]],
   seed |-> Skip(sh.seed, IF Len(order) > Guaranteed THEN Len(order) - Guaranteed ELSE 0)])

\* the number of spatial clues built before the room at position k
spatialBefore(cats, k) == Cardinality({j \in 1..(k - 1) : cats[j] = "spatial"})

\* one pass of the retry loop of generateClues: lastClues and the generator state
clueAttempt(dungeon, order, sd) ==
  Bind(assign(order, sd), LAMBDA a :
  Bind(calculateDistances(dungeon.rooms, dungeon.treasureId), LAMBDA distFromTreasure :
  Bind(find(dungeon.rooms, dungeon.treasureId), LAMBDA treasureRoom :
  [clues |-> [id \in Range(order) |->
                Bind(MinOf({k \in DOMAIN order : order[k] = id}), LAMBDA k :
                buildClue(a.cats[k], find(dungeon.rooms, id), treasureRoom,
                          distFromTreasure, Skip(a.seed, spatialBefore(a.cats, k))))],
   seed |-> Skip(a.seed, spatialBefore(a.cats, Len(order) + 1))])))

----------------------------------------------------------------------------
(* the runs: generateDungeon, then generateClues on what it returned *)

MaxRuns == 2

\* the Dungeon object generateDungeon returns
dungeonOf == [rooms |-> rooms, entranceId |-> EntranceId,
              treasureId |-> treasureId, dragonId |-> dragonId]

\* the dungeon and the clue map of a finished run
resultOf == [dungeon |-> dungeonOf, clues |-> lastClues]

Init ==
  /\ DungeonInit
  /\ call = [op |-> "none"]
  /\ result = FALSE
  /\ GameIdle
  /\ clueSeed = <<0, 0>>
  /\ clueRooms = <<>>
  /\ attempt = 0
  /\ lastClues = <<>>
  /\ run = 1
  /\ earlier = [dungeon |-> [rooms |-> <<>>, entranceId |-> EntranceId,
                             treasureId |-> -1, dragonId |-> -1],
                clues |-> <<>>]

\* generateClues sorting dungeon.rooms itself instead of the filtered copy
StartCluesInPlace ==
  /\ pc = "generated"
  /\ UNCHANGED utilVars
  /\ UNCHANGED gameVars
  /\ UNCHANGED firstDeadEnd
  /\ clueSeed' = createSeededRandom(dateToSeed(date \o <<45, 99, 108, 117, 101, 115>>))
  /\ clueRooms' = clueRoomsOf(dungeonOf)
  /\ \E dist \in {calculateDistances(rooms, EntranceId)} :
       LET before(a, b) ==
             \/ GetOr0(dist, rooms[a].id) < GetOr0(dist, rooms[b].id)
             \/ GetOr0(dist, rooms[a].id) = GetOr0(dist, rooms[b].id) /\ a < b
       IN  rooms' = [p \in DOMAIN rooms |->
                       rooms[CHOOSE k \in DOMAIN rooms :
                               Cardinality({j \in DOMAIN rooms : before(j, k)}) = p - 1]]
  /\ attempt' = 0
  /\ lastClues' = <<>>
  /\ pc' = "clues"
  /\ UNCHANGED <<date, seed, roomCount, usedPositions, i, attempts,
                 extraConnections, treasureId, deadEndCount, candidateParents, dragonId,
                 run, earlier>>

\* generateClues up to the retry loop: the seed of dateString + '-clues' and clueRooms
StartClues ==
  /\ pc = "generated"
  /\ UNCHANGED utilVars
  /\ UNCHANGED gameVars
  /\ UNCHANGED firstDeadEnd
  /\ clueSeed' = createSeededRandom(dateToSeed(date \o <<45, 99, 108, 117, 101, 115>>))
  /\ clueRooms' = clueRoomsOf(dungeonOf)
  /\ attempt' = 0
  /\ lastClues' = <<>>
  /\ pc' = "clues"
  /\ UNCHANGED <<date, seed, roomCount, rooms, usedPositions, i, attempts,
                 extraConnections, treasureId, deadEndCount, candidateParents, dragonId,
                 run, earlier>>

\* the retry loop without its return: every pass counts and the loop runs to its end
ClueAttemptNoReturn ==
  /\ pc = "clues"
  /\ UNCHANGED utilVars
  /\ UNCHANGED gameVars
  /\ UNCHANGED firstDeadEnd
  /\ attempt < MaxClueAttempts
  /\ \E r \in {clueAttempt(dungeonOf, clueRooms, clueSeed)} :
       /\ clueSeed' = r.seed
       /\ lastClues' = r.clues
  /\ attempt' = attempt + 1
  /\ pc' = IF attempt + 1 < MaxClueAttempts THEN "clues" ELSE "done"
  /\ UNCHANGED <<date, seed, roomCount, rooms, usedPositions, i, attempts,
                 extraConnections, treasureId, deadEndCount, candidateParents, dragonId,
                 clueRooms, run, earlier>>

\* one pass of the retry loop; the map is returned when it is solvable or the loop ends
ClueAttempt ==
  /\ pc = "clues"
  /\ UNCHANGED utilVars
  /\ UNCHANGED gameVars
  /\ UNCHANGED firstDeadEnd
  /\ attempt < MaxClueAttempts
  /\ \E r \in {clueAttempt(dungeonOf, clueRooms, clueSeed)} :
       /\ clueSeed' = r.seed
       /\ lastClues' = r.clues
       /\ IF isSolvable(r.clues, clueRooms, rooms, treasureId)
          THEN attempt' = attempt /\ pc' = "done"
          ELSE /\ attempt' = attempt + 1
               /\ pc' = IF attempt + 1 < MaxClueAttempts THEN "clues" ELSE "done"
  /\ UNCHANGED <<date, seed, roomCount, rooms, usedPositions, i, attempts,
                 extraConnections, treasureId, deadEndCount, candidateParents, dragonId,
                 clueRooms, run, earlier>>

\* the same dateString is generated again; what the run returned is kept to compare
Again ==
  /\ pc = "done"
  /\ UNCHANGED utilVars
  /\ UNCHANGED gameVars
  /\ firstDeadEnd' = 0
  /\ run < MaxRuns
  /\ earlier' = resultOf
  /\ run' = run + 1
  /\ pc' = "start"
  /\ roomCount' = 0
  /\ rooms' = <<>>
  /\ usedPositions' = {}
  /\ i' = 0
  /\ attempts' = 0
  /\ extraConnections' = 0
  /\ treasureId' = -1
  /\ deadEndCount' = 0
  /\ candidateParents' = <<>>
  /\ dragonId' = -1
  /\ clueRooms' = <<>>
  /\ attempt' = 0
  /\ lastClues' = <<>>
  /\ UNCHANGED <<date, seed, clueSeed>>

Next ==
  \/ Begin \/ Grow \/ StartExtras \/ ExtraEdge \/ Loops \/ Entrance
  \/ RemoveShortcut \/ ShortDone \/ Extend \/ ExtendDone \/ AddShortcut \/ LongDone
  \/ PlaceTreasure \/ StartDeadEnds \/ AddDeadEnd \/ PlaceDragon
  \/ StartClues \/ ClueAttempt \/ Again

Spec == Init /\ [][Next]_vars

----------------------------------------------------------------------------
(* what the generator returns *)

\* the program is sequential and running: the step that is enabled is taken
FairSpec == Spec /\ WF_vars(Next)

----------------------------------------------------------------------------
(* the graph utilities called on their own, as the unit tests call them *)

\* the largest room list calculateDistances is called on
MaxGraphRooms == 4

\* the coordinates areGridAdjacent is called on are within -MaxCoord..MaxCoord
MaxCoord == 2

\* the elements of a set of numbers in ascending order
ascending(S) ==
  [k \in 1..Cardinality(S) |-> CHOOSE v \in S : Cardinality({w \in S : w < v}) = k - 1]

\* the room lists of n rooms with ids 0..n-1 in a row, joined by any set of edges,
\* each edge listed by both of its rooms
graphs(n) ==
  {[k \in 1..n |->
      [id |-> k - 1, x |-> k - 1, y |-> 0,
       connections |-> ascending({v \in 0..(n - 1) : {k - 1, v} \in edges})]] :
     edges \in SUBSET ({{v, w} : v, w \in 0..(n - 1)} \ {{v} : v \in 0..(n - 1)})}

roomAt(x, y) == [id |-> 0, x |-> x, y |-> y, connections |-> <<>>]

UtilInit ==
  /\ date = <<>>
  /\ pc = "util"
  /\ seed = <<0, 0>>
  /\ roomCount = 0
  /\ rooms = <<>>
  /\ usedPositions = {}
  /\ i = 0
  /\ attempts = 0
  /\ extraConnections = 0
  /\ treasureId = -1
  /\ deadEndCount = 0
  /\ candidateParents = <<>>
  /\ dragonId = -1
  /\ firstDeadEnd = 0
  /\ clueSeed = <<0, 0>>
  /\ clueRooms = <<>>
  /\ attempt = 0
  /\ lastClues = <<>>
  /\ run = 1
  /\ earlier = <<>>
  /\ call = [op |-> "none"]
  /\ result = FALSE
  /\ GameIdle

\* calculateDistances(rooms, startId) on a small room list
CallDistances ==
  /\ call.op = "none"
  /\ \E n \in 1..MaxGraphRooms : \E g \in graphs(n) : \E startId \in 0..(n - 1) :
       /\ call' = [op |-> "calculateDistances", rooms |-> g, startId |-> startId]
       /\ result' = calculateDistances(g, startId)
  /\ UNCHANGED <<dungeonVars, clueVars, gameVars>>

\* areGridAdjacent(room1, room2) on two rooms of a small grid
CallAdjacent ==
  /\ call.op = "none"
  /\ \E x1, y1, x2, y2 \in (-MaxCoord)..MaxCoord :
       /\ call' = [op |-> "areGridAdjacent", room1 |-> roomAt(x1, y1),
                   room2 |-> roomAt(x2, y2)]
       /\ result' = areGridAdjacent(roomAt(x1, y1), roomAt(x2, y2))
  /\ UNCHANGED <<dungeonVars, clueVars, gameVars>>

UtilNext == CallDistances \/ CallAdjacent

UtilSpec == UtilInit /\ [][UtilNext]_vars

\* calculatePar: the entrance distance of the treasure
calculatePar(dungeon) ==
  GetOr0(calculateDistances(dungeon.rooms, dungeon.entranceId), dungeon.treasureId)

\* generateDungeon has returned
returned == pc \in {"generated", "clues", "done"}

\* the ids of the rooms
roomIds == {rooms[k].id : k \in DOMAIN rooms}

----------------------------------------------------------------------------
(* C1: in the returned dungeon and after every construction step, an edge removal of
   ensureDistanceRange included, calculateDistances from the entrance has an entry
   for every room *)
C1_Connected ==
  rooms # <<>> => roomIds \subseteq DOMAIN calculateDistances(rooms, EntranceId)

\* ensureDistanceRange has just removed a shortcut and every room is still reached
C1_Witness ==
  /\ pc = "short" /\ attempts > 0
  /\ roomIds \subseteq DOMAIN calculateDistances(rooms, EntranceId)

----------------------------------------------------------------------------
(* C2: connections are symmetric in the returned dungeon and after every construction
   step: every id a room lists is the id of a room that lists the room back *)
C2_Symmetric ==
  \A k \in DOMAIN rooms : \A j \in DOMAIN rooms[k].connections :
    /\ rooms[k].connections[j] \in roomIds
    /\ Includes(find(rooms, rooms[k].connections[j]).connections, rooms[k].id)

\* a returned dungeon with rooms from the later phases and edges beyond the growth tree
C2_Witness ==
  /\ returned /\ Len(rooms) > roomCount
  /\ \E k \in DOMAIN rooms : Len(rooms[k].connections) > 2
  /\ C2_Symmetric

----------------------------------------------------------------------------
(* C3: every connection of the returned dungeon, and of the dungeon after every
   construction step, joins two grid-adjacent rooms *)
C3_Adjacent ==
  \A k \in DOMAIN rooms : \A j \in DOMAIN rooms[k].connections :
    LET dx == Abs(rooms[k].x - find(rooms, rooms[k].connections[j]).x)
        dy == Abs(rooms[k].y - find(rooms, rooms[k].connections[j]).y)
    IN  dx + dy = 1 \/ (dx = 1 /\ dy = 1)

\* a returned dungeon with a diagonal connection, which only the extra phases add
C3_Witness ==
  /\ returned
  /\ \E k \in DOMAIN rooms : \E j \in DOMAIN rooms[k].connections :
       /\ Abs(rooms[k].x - find(rooms, rooms[k].connections[j]).x) = 1
       /\ Abs(rooms[k].y - find(rooms, rooms[k].connections[j]).y) = 1
  /\ C3_Adjacent

----------------------------------------------------------------------------
(* C4: no two rooms have the same (x, y), in the returned dungeon and after every
   step that creates a room *)
C4_UniquePositions ==
  \A j, k \in DOMAIN rooms :
    j # k => <<rooms[j].x, rooms[j].y>> # <<rooms[k].x, rooms[k].y>>

\* dead ends have been added to a dungeon that the entrance phase or the frontier
\* extension had already enlarged, and all the cells differ
C4_Witness ==
  /\ pc = "deadEnd" /\ i = deadEndCount
  /\ Len(rooms) > roomCount + 1
  /\ C4_UniquePositions

----------------------------------------------------------------------------
(* C5: in the returned dungeon a search from the entrance that takes the dragon room
   as already visited reaches the treasure *)
C5_Bypassable ==
  returned =>
    treasureId \in DOMAIN BfsLevel(rooms,
                     [distances |-> (dragonId :> 0) @@ (EntranceId :> 0),
                      frontier |-> {EntranceId}, d |-> 0], Len(rooms)).distances

\* the dragon is placed next to the treasure and the treasure is still reached
C5_Witness ==
  /\ pc = "generated"
  /\ Includes(find(rooms, treasureId).connections, dragonId)
  /\ isBypassable(rooms, treasureId, dragonId)

----------------------------------------------------------------------------
\* the candidates left when, from the ids of all rooms, each clue of the returned map
\* keeps the rooms roomMatchesClue accepts
candidatesLeft ==
  {c \in roomIds : \A id \in DOMAIN lastClues :
     roomMatchesClue(find(rooms, c), lastClues[id], find(rooms, id), rooms)}

(* C6 as stated: the clue map generateClues returns is uniquely solvable for every
   seed, the candidates left being the treasure alone *)
C6_AlwaysSolvable == pc = "done" => candidatesLeft = {treasureId}

(* C6 amended: the returned map is uniquely solvable exactly when one of the ten
   attempts passed isSolvable; when all ten fail the map of the tenth attempt is
   returned although other candidates than the treasure are left *)
C6_SolvableUnlessExhausted ==
  pc = "done" => (attempt < MaxClueAttempts <=> candidatesLeft = {treasureId})

\* a map accepted on a retry: an earlier attempt failed and this one leaves the treasure
C6_Witness ==
  /\ pc = "done" /\ attempt > 0 /\ attempt < MaxClueAttempts
  /\ candidatesLeft = {treasureId}

----------------------------------------------------------------------------
(* C7 as stated: in the returned dungeon the entrance distance of the treasure is at
   least 5 and at most 7 for every seed *)
C7_InBand ==
  returned => calculatePar(dungeonOf) >= MinDist /\ calculatePar(dungeonOf) <= MaxDist

(* C7 amended: the treasure is chosen at most 7 from the entrance, and at least 5
   whenever ensureDistanceRange left some room 5 or more from the entrance; later
   steps do not change the distance *)
C7_InBandWhenReached ==
  [][/\ pc = "treasure" =>
          /\ calculatePar(dungeonOf)' <= MaxDist
          /\ getMaxDistance(rooms, EntranceId) >= MinDist
               => calculatePar(dungeonOf)' >= MinDist
     /\ treasureId # -1 /\ treasureId' # -1 =>
          calculatePar(dungeonOf)' = calculatePar(dungeonOf)]_vars

\* the treasure has just been chosen in the band, some room being 5 or more away
C7_Witness ==
  /\ pc = "addDeadEnds"
  /\ getMaxDistance(rooms, EntranceId) >= MinDist
  /\ calculatePar(dungeonOf) >= MinDist /\ calculatePar(dungeonOf) <= MaxDist

----------------------------------------------------------------------------
(* C8: a second run on the same date string returns the same number of rooms, the same
   (x, y) for every room index, the same connection set for every room, the same
   entranceId, treasureId and dragonId, and for every room the same category, text
   and compact of its clue: the earlier run has no influence *)
C8_Deterministic ==
  pc = "done" /\ run > 1 =>
    /\ Len(rooms) = Len(earlier.dungeon.rooms)
    /\ \A k \in DOMAIN rooms :
         /\ rooms[k].x = earlier.dungeon.rooms[k].x
         /\ rooms[k].y = earlier.dungeon.rooms[k].y
         /\ Range(rooms[k].connections) = Range(earlier.dungeon.rooms[k].connections)
    /\ dungeonOf.entranceId = earlier.dungeon.entranceId
    /\ treasureId = earlier.dungeon.treasureId
    /\ dragonId = earlier.dungeon.dragonId
    /\ DOMAIN lastClues = DOMAIN earlier.clues
    /\ \A id \in DOMAIN lastClues :
         /\ lastClues[id].category = earlier.clues[id].category
         /\ lastClues[id].text = earlier.clues[id].text
         /\ lastClues[id].compact = earlier.clues[id].compact

\* a second run has returned a dungeon and its clues after a first run that returned some
C8_Witness ==
  /\ pc = "done" /\ run > 1
  /\ Len(earlier.dungeon.rooms) >= MinRooms
  /\ DOMAIN earlier.clues # {}
  /\ resultOf = earlier

----------------------------------------------------------------------------
(* C9: in the returned dungeon entranceId is 0, treasureId and dragonId are ids of
   rooms, and the three ids are pairwise distinct *)
C9_DistinctIds ==
  returned =>
    /\ dungeonOf.entranceId = 0
    /\ dungeonOf.treasureId \in roomIds
    /\ dungeonOf.dragonId \in roomIds
    /\ dungeonOf.entranceId # dungeonOf.treasureId
    /\ dungeonOf.treasureId # dungeonOf.dragonId
    /\ dungeonOf.dragonId # dungeonOf.entranceId

\* a dungeon is returned whose treasure came from the fallback choice
C9_Witness ==
  /\ pc = "generated"
  /\ calculatePar(dungeonOf) < MinDist
  /\ Cardinality({EntranceId, treasureId, dragonId} \cap roomIds) = 3

----------------------------------------------------------------------------
(* C10: the returned clue map has an entry for every room other than the treasure room
   and the dragon room and none for these two, whether the map was accepted or is
   the one of the last attempt *)
C10_ClueRooms ==
  pc = "done" => DOMAIN lastClues = roomIds \ {treasureId, dragonId}

\* the map of the tenth failed attempt is returned, with its entries
C10_Witness ==
  /\ pc = "done" /\ attempt = MaxClueAttempts
  /\ DOMAIN lastClues = roomIds \ {treasureId, dragonId}
  /\ Cardinality(DOMAIN lastClues) = Len(rooms) - 2

----------------------------------------------------------------------------
\* the categories of the clues of the map
clueCategories == {lastClues[id].category : id \in DOMAIN lastClues}

(* C11: every clue of a map built by generateClues, in a failed attempt, in the
   accepted one or in the fallback, is true of the treasure: roomMatchesClue accepts
   the treasure room for the clue of every room, in all four categories *)
C11_TrueOfTreasure ==
  \A id \in DOMAIN lastClues :
    roomMatchesClue(find(rooms, treasureId), lastClues[id], find(rooms, id), rooms)

\* a returned map with clues of all four categories, among them a direction on the
\* y axis and a same-column or same-row clue
C11_Witness ==
  /\ pc = "done"
  /\ clueCategories = Range(categories)
  /\ \E id \in DOMAIN lastClues :
       StrIncludes(lastClues[id].compact, sBelow) \/ StrIncludes(lastClues[id].compact, sAbove)
  /\ \E id \in DOMAIN lastClues :
       StrIncludes(lastClues[id].compact, sCol) \/ StrIncludes(lastClues[id].compact, sRow)
  /\ \A id \in DOMAIN lastClues :
       roomMatchesClue(find(rooms, treasureId), lastClues[id], find(rooms, id), rooms)

----------------------------------------------------------------------------
\* the entrance distance of the room with that id
entranceDistance(id) == GetOr0(calculateDistances(rooms, EntranceId), id)

(* C12: in the clue map of every attempt, the fallback one included, the four rooms at
   the head of clueRooms are eligible rooms no farther from the entrance than any
   other eligible room, they carry four pairwise different categories, and so each
   of exits, spatial, manhattan and entrance occurs in the map *)
C12_FourCategories ==
  lastClues # <<>> =>
    /\ Len(clueRooms) >= Guaranteed
    /\ \A k \in 1..Guaranteed : \A j \in (Guaranteed + 1)..Len(clueRooms) :
         entranceDistance(clueRooms[k]) <= entranceDistance(clueRooms[j])
    /\ Cardinality({lastClues[clueRooms[k]].category : k \in 1..Guaranteed}) = Guaranteed
    /\ clueCategories = Range(categories)

\* the fallback map of the tenth attempt, in which a room after the first four repeats
\* a category
C12_Witness ==
  /\ pc = "done" /\ attempt = MaxClueAttempts
  /\ Cardinality({lastClues[clueRooms[k]].category : k \in 1..Guaranteed}) = Guaranteed
  /\ Len(clueRooms) > Guaranteed
  /\ \E j \in (Guaranteed + 1)..Len(clueRooms) :
       lastClues[clueRooms[j]].category = lastClues[clueRooms[1]].category

----------------------------------------------------------------------------
(* C13: in the returned dungeon the entrance room has at least 3 connections for every
   seed: ensureEntranceConnections ends with at least 3 and no later step removes an
   edge of the entrance *)
C13_EntranceConnections ==
  returned => Len(find(rooms, EntranceId).connections) >= MinConnections

----------------------------------------------------------------------------
(* C14: every run of generateDungeon and generateClues terminates: a run that starts
   returns its clue map, the growth loop makes fewer than 100 failed attempts for a
   room before the exhaustive scan, each distance-band loop counts at most 20
   iterations, the clue retry at most 10, and the loops without a counter (loop
   injection, entrance connections, frontier extension) end as well *)
C14_Terminates ==
  /\ [](pc = "grow" => attempts < MaxGrowAttempts)
  /\ [](pc \in {"short", "extend", "long"} => attempts <= MaxRangeAttempts)
  /\ [](attempt <= MaxClueAttempts)
  /\ (pc = "start") ~> (pc = "done")

\* the last run has returned although the too-short loop and the extension loop gave
\* up with every room below the band
C14_Witness ==
  /\ pc = "done" /\ run = MaxRuns
  /\ calculatePar(dungeonOf) < MinDist

----------------------------------------------------------------------------
\* the index the next call of random() gives for an array of n elements
nextIndex(n) == FloorMul(Draw(seed).u, n)

(* C15: generation raises no error: every room's id is its index in rooms, every id in
   a connections list names an existing room, the index drawn for the parent room of
   the growth loop, for rooms[fromId] of the extra-edge loop and for the parent of a
   dead end lies inside its array, the pool the treasure is taken from and the pool
   the dragon is drawn from are not empty, and the ids returned name rooms *)
C15_NeverFails ==
  /\ \A k \in DOMAIN rooms : rooms[k].id = k - 1
  /\ \A k \in DOMAIN rooms : Range(rooms[k].connections) \subseteq roomIds
  /\ pc = "grow" /\ i < roomCount => nextIndex(Len(rooms)) + 1 \in DOMAIN rooms
  /\ pc = "extra" /\ i < extraConnections => nextIndex(roomCount) + 1 \in DOMAIN rooms
  /\ pc = "treasure" => \E k \in DOMAIN rooms : rooms[k].id # EntranceId
  /\ pc = "deadEnd" /\ i < deadEndCount /\ Len(candidateParents) > 0 =>
       /\ nextIndex(Len(candidateParents)) + 1 \in DOMAIN candidateParents
       /\ Range(candidateParents) \subseteq roomIds
  /\ pc = "deadEnd" => Len(dragonCandidates(rooms, treasureId)) > 0
  /\ returned => treasureId \in roomIds /\ dragonId \in roomIds
  /\ pc = "done" => DOMAIN lastClues \subseteq roomIds

\* both calls have returned for a dungeon to which the later phases added rooms
C15_Witness ==
  /\ pc = "done"
  /\ Len(rooms) > roomCount
  /\ extraConnections > 0
  /\ treasureId \in roomIds /\ dragonId \in roomIds
  /\ \A k \in DOMAIN rooms : rooms[k].id = k - 1

----------------------------------------------------------------------------
(* C16: once generateDungeon has returned, the steps of generateClues (with the calls of
   calculateDistances and roomMatchesClue they make) and calculatePar leave the
   dungeon as it is: the room list and its order, every room's id, coordinates and
   connections in their order, entranceId, treasureId and dragonId *)
C16_ReadOnly ==
  [][/\ pc \in {"generated", "clues"} => dungeonOf' = dungeonOf
     /\ pc \in {"generated", "clues"} =>
          calculatePar(dungeonOf)' = calculatePar(dungeonOf)]_vars

\* the clue map is returned for a dungeon whose rooms are not in the order of their
\* entrance distance, the order clueRooms is sorted into
C16_Witness ==
  /\ pc = "done" /\ lastClues # <<>>
  /\ \E k \in 1..(Len(rooms) - 1) :
       entranceDistance(rooms[k].id) > entranceDistance(rooms[k + 1].id)
  /\ \E k \in 1..(Len(clueRooms) - 1) : clueRooms[k] > clueRooms[k + 1]

----------------------------------------------------------------------------
\* the edges of the graph, each as the pair of its ends
edgesOf == {<<rooms[k].id, n>> : k \in DOMAIN rooms, n \in roomIds} \cap
           {e \in roomIds \X roomIds : Includes(find(rooms, e[1]).connections, e[2])}

\* the ids reachable from the ids in S along connections other than the edge a-b
RECURSIVE reachWithout(_, _, _)
reachWithout(S, a, b) ==
  LET step == S \cup {n \in roomIds : \E m \in S :
                        /\ Includes(find(rooms, m).connections, n)
                        /\ {m, n} # {a, b}}
  IN  IF step = S THEN S ELSE reachWithout(step, a, b)

(* C17: isConnectedWithoutEdge, called on an edge a-b of the graph the too-short loop
   works on or of a returned dungeon, answers true exactly when every room can be
   reached from room 0 without that edge, and the rooms it leaves have the ids,
   coordinates and neighbour sets they had: the edge is back in both directions and
   no other edge is added or removed *)
C17_EdgeTest ==
  pc \in {"short", "generated"} =>
    \A e \in edgesOf :
      \E r \in {isConnectedWithoutEdge(rooms, e[1], e[2])} :
        /\ r.isConnected <=> reachWithout({rooms[1].id}, e[1], e[2]) = roomIds
        /\ DOMAIN r.rooms = DOMAIN rooms
        /\ \A k \in DOMAIN rooms :
             /\ r.rooms[k].id = rooms[k].id
             /\ r.rooms[k].x = rooms[k].x /\ r.rooms[k].y = rooms[k].y
             /\ Range(r.rooms[k].connections) = Range(rooms[k].connections)
             /\ Len(r.rooms[k].connections) = Len(rooms[k].connections)

\* the too-short loop is about to test edges, of which one cuts the graph when it is
\* removed and another does not
C17_Witness ==
  /\ pc = "short" /\ getMaxDistance(rooms, EntranceId) < MinDist
  /\ \E e \in edgesOf : ~isConnectedWithoutEdge(rooms, e[1], e[2]).isConnected
  /\ \E e \in edgesOf : isConnectedWithoutEdge(rooms, e[1], e[2]).isConnected

----------------------------------------------------------------------------
\* the paths from a to b in the room list g, as the sequences of the ids they visit
pathsIn(g, a, b) ==
  {p \in UNION {[1..m -> {g[k].id : k \in DOMAIN g}] : m \in 1..Len(g)} :
     /\ p[1] = a /\ p[Len(p)] = b
     /\ \A j \in 1..(Len(p) - 1) : Includes(find(g, p[j]).connections, p[j + 1])}

(* C18: calculateDistances(rooms, startId) maps startId to 0 and every room that a path
   leads to from startId to the number of edges of a shortest such path; a room no
   path leads to has no entry *)
C18_ShortestPaths ==
  call.op = "calculateDistances" =>
    /\ result[call.startId] = 0
    /\ \A k \in DOMAIN call.rooms :
         \E paths \in {pathsIn(call.rooms, call.startId, call.rooms[k].id)} :
           IF paths = {}
           THEN call.rooms[k].id \notin DOMAIN result
           ELSE /\ call.rooms[k].id \in DOMAIN result
                /\ result[call.rooms[k].id] = MinOf({Len(p) - 1 : p \in paths})

\* a call that finds a room two edges from the start and leaves another room, which
\* no path leads to, without an entry
C18_Witness ==
  /\ call.op = "calculateDistances"
  /\ \E v \in DOMAIN result :
       /\ result[v] = 2
       /\ pathsIn(call.rooms, call.startId, v) # {}
  /\ \E k \in DOMAIN call.rooms : call.rooms[k].id \notin DOMAIN result

----------------------------------------------------------------------------
(* C19: areGridAdjacent(a, b) is true exactly when the rooms are one step apart on one
   axis and level on the other, or one step apart on both (stated on the signed
   differences: their squares add up to 1 or to 2); it is false two apart on one
   axis, farther apart and at equal coordinates, and it answers the same for (b, a) *)
C19_GridAdjacent ==
  call.op = "areGridAdjacent" =>
    LET sx == call.room1.x - call.room2.x
        sy == call.room1.y - call.room2.y
    IN  /\ result <=> sx * sx + sy * sy \in {1, 2}
        /\ sx = 0 /\ sy = 0 => ~result
        /\ sx \in {-2, 2} /\ sy = 0 => ~result
        /\ sy \in {-2, 2} /\ sx = 0 => ~result
        /\ result <=> areGridAdjacent(call.room2, call.room1)

\* a call on two rooms that touch at a corner, which answers true
C19_Witness ==
  /\ call.op = "areGridAdjacent"
  /\ call.room1.x - call.room2.x = -1 /\ call.room1.y - call.room2.y = 1
  /\ result

----------------------------------------------------------------------------
\* farRooms[0] of the too-long loop: the first room farther than the band allows
farRoomId ==
  rooms[MinOf({k \in DOMAIN rooms : entranceDistance(rooms[k].id) > MaxDist})].id

(* C20: whenever the too-long loop of ensureDistanceRange adds a shortcut between a
   room farther than 7 from the entrance and a closer grid-adjacent room, the
   entrance distance of the far room after the edge is added is not below 5 *)
C20_ShortcutInBand ==
  [][pc = "long" /\ rooms' # rooms =>
       GetOr0(calculateDistances(rooms', EntranceId), farRoomId) >= MinDist]_vars

----------------------------------------------------------------------------
(* C21: the redundant-edge phase adds between 3 and 6 edges to the tree the growth
   phase built, and every edge it adds joins two rooms that were grid-adjacent and
   not connected before *)
C21_ExtraEdges ==
  [][/\ pc = "extra" /\ i >= extraConnections =>
          Cardinality(edgesOf) \div 2 - (roomCount - 1)
            \in MinExtra..(MinExtra + ExtraSpread - 1)
     /\ pc = "extra" /\ pc' = "extra" =>
          \A e \in edgesOf' \ edgesOf :
            areGridAdjacent(find(rooms, e[1]), find(rooms, e[2]))]_vars

----------------------------------------------------------------------------
(* C22: addDeadEnds adds between 3 and 5 new rooms: the returned dungeon has 3 to 5
   rooms more than the room list addDeadEnds was called on *)
C22_DeadEndCount ==
  returned =>
    Len(rooms) - firstDeadEnd \in MinDeadEnds..(MinDeadEnds + DeadEndSpread - 1)

----------------------------------------------------------------------------
\* the edges away from the entrance that the graph stays connected without, each from
\* its room of lower id, which is how the too-short loop lists an edge
safeEdges ==
  {e \in edgesOf :
     /\ e[1] < e[2] /\ e[1] # EntranceId /\ e[2] # EntranceId
     /\ reachWithout({EntranceId}, e[1], e[2]) = roomIds}

\* e comes before f where the loop sorts its edges: the larger gap between the entrance
\* distances of the two rooms first, and at equal gaps the order of collection, by
\* room and then by place in its connections
sortsBefore(e, f) ==
  LET gap(g) == Abs(entranceDistance(g[1]) - entranceDistance(g[2]))
      place(g) == MinOf({k \in DOMAIN find(rooms, g[1]).connections :
                           find(rooms, g[1]).connections[k] = g[2]})
  IN  \/ gap(e) > gap(f)
      \/ /\ gap(e) = gap(f)
         /\ \/ indexOfRoom(rooms, e[1]) < indexOfRoom(rooms, f[1])
            \/ e[1] = f[1] /\ place(e) <= place(f)

(* C23: an iteration of the too-short loop of ensureDistanceRange adds no edge and
   removes at most one; the edge it removes is the first, by descending gap between
   the entrance distances of its rooms, of the edges that do not touch the entrance
   and that the graph stays connected without, and it removes none only when there
   is no such edge; the loop counts at most 20 iterations, so at most 20 edges go *)
C23_FirstSafeShortcut ==
  [][pc = "short" =>
       /\ edgesOf' \subseteq edgesOf
       /\ Cardinality(edgesOf \ edgesOf') \in {0, 2}
       /\ \A e \in edgesOf \ edgesOf' :
            e[1] < e[2] => e \in safeEdges /\ \A f \in safeEdges : sortsBefore(e, f)
       /\ attempts' = attempts + 1 /\ edgesOf' = edgesOf => safeEdges = {}
       /\ attempts' <= MaxRangeAttempts]_vars

\* the loop has removed two edges and goes on, with edges left that it may not remove
C23_Witness ==
  /\ pc = "short" /\ attempts >= 2
  /\ getMaxDistance(rooms, EntranceId) < MinDist
  /\ safeEdges # {}
  /\ \E e \in edgesOf : e[1] < e[2] /\ e[1] # EntranceId /\ e \notin safeEdges

----------------------------------------------------------------------------
(* C24: when generateDungeon has chosen the treasure: if a room other than the
   entrance lies 5 to 7 steps from the entrance, the treasure lies 5 to 7 steps from
   the entrance; otherwise the treasure is a room other than the entrance whose
   penalty, 5 - distance below 5 and distance - 7 above 7, is the least among the
   rooms other than the entrance *)
C24_TreasureChoice ==
  pc = "addDeadEnds" =>
    LET others == roomIds \ {EntranceId}
        band == MinDist..MaxDist
        penalty(id) ==
          IF entranceDistance(id) < 5 THEN 5 - entranceDistance(id)
          ELSE IF entranceDistance(id) > 7 THEN entranceDistance(id) - 7 ELSE 0
    IN  /\ treasureId \in others
        /\ IF \E id \in others : entranceDistance(id) \in band
           THEN entranceDistance(treasureId) \in band
           ELSE \A id \in others : penalty(treasureId) <= penalty(id)

\* no room lies in the band and the treasure is the nearest to it, while the first
\* room after the entrance is further from the band
C24_Witness ==
  /\ pc = "addDeadEnds"
  /\ \A id \in roomIds : entranceDistance(id) \notin MinDist..MaxDist
  /\ score(entranceDistance(treasureId)) < score(entranceDistance(1))

----------------------------------------------------------------------------
(* C25: generateClues makes at most 10 attempts; while it is in its loop every
   earlier attempt has failed; an attempt whose map leaves the treasure alone returns
   that map at once and no attempt follows; an attempt that fails is counted, and
   only the tenth failure returns, with the map built in that tenth attempt *)
C25_FirstSolvable ==
  [][/\ pc = "clues" =>
          /\ attempt < MaxClueAttempts
          /\ attempt > 0 => candidatesLeft # {treasureId}
          /\ candidatesLeft' = {treasureId} => pc' = "done" /\ attempt' = attempt
          /\ candidatesLeft' # {treasureId} =>
               /\ attempt' = attempt + 1
               /\ pc' = "done" <=> attempt' = MaxClueAttempts
     /\ pc = "done" =>
          /\ pc' # "clues"
          /\ candidatesLeft = {treasureId} \/ attempt = MaxClueAttempts]_vars

\* ten attempts failed and the map of the tenth is returned
C25_Witness ==
  pc = "done" /\ attempt = MaxClueAttempts /\ candidatesLeft # {treasureId}

----------------------------------------------------------------------------
\* the growth phase as far as it has come: the target is 12 to 16, the rooms placed so
\* far are those before room i, and the exhaustive scan would find a free cell; from
\* the end of growth on every targeted room is there, each at the index of its id
everyRoomPlaced ==
  /\ pc = "grow" =>
       /\ roomCount \in MinRooms..(MinRooms + RoomSpread - 1)
       /\ Len(rooms) = i
       /\ fallbackCell(rooms, usedPositions) # <<>>
  /\ pc = "extra" => Len(rooms) = roomCount
  /\ pc \notin {"start", "grow"} =>
       /\ roomCount \in 12..16
       /\ Len(rooms) >= roomCount
       /\ \A k \in 1..roomCount : rooms[k].id = k - 1
  /\ returned => Len(rooms) >= 12

(* C26: the growth phase of generateDungeon places every targeted room: the target is
   12 to 16, a free cell is there for the exhaustive scan to find, after growth the
   rooms are the target many with ids 0..target-1 at the index of their id; no later
   phase removes a room, so the returned dungeon has at least 12 rooms *)
C26_AllRoomsPlaced ==
  [][/\ everyRoomPlaced
     /\ everyRoomPlaced'
     /\ pc \notin {"start", "done"} =>
          /\ Len(rooms') >= Len(rooms)
          /\ \A k \in DOMAIN rooms : rooms'[k].id = rooms[k].id]_vars

\* an attempt found the cells around its parent room taken and the room is tried again
C26_Witness ==
  /\ pc = "grow" /\ attempts > 0 /\ i < roomCount /\ Len(rooms) = i
----------------------------------------------------------------------------
\* every room addDeadEnds created has one connection, to a room that was there before
\* and whose distances to entrance and treasure add up to at most par + 1
deadEndsOffPath ==
  \A k \in (firstDeadEnd + 1)..Len(rooms) :
    /\ Len(rooms[k].connections) = 1
    /\ rooms[k].connections[1] < firstDeadEnd
    /\ entranceDistance(rooms[k].connections[1])
         + GetOr0(calculateDistances(rooms, treasureId), rooms[k].connections[1])
       <= entranceDistance(treasureId) + 1

(* C27: in the dungeon generateDungeon returns every room created by addDeadEnds has exactly one
   connection, to a parent whose entrance distance plus treasure distance is at most
   the entrance-treasure distance plus 1; a step of addDeadEnds removes no edge and
   leaves the distance between any two rooms that were there unchanged, the
   entrance-treasure distance with them *)
C27_DeadEnds ==
  [][/\ pc' = "generated" => deadEndsOffPath'
     /\ pc \in {"addDeadEnds", "deadEnd"} =>
          /\ edgesOf \subseteq edgesOf'
          /\ \A a \in roomIds : \A b \in roomIds :
               GetOr0(calculateDistances(rooms', a), b)
                 = GetOr0(calculateDistances(rooms, a), b)
          /\ calculatePar(dungeonOf)' = calculatePar(dungeonOf)]_vars

\* a dungeon is returned with two dead ends or more
C27_Witness ==
  /\ pc = "generated" /\ Len(rooms) >= firstDeadEnd + 2

----------------------------------------------------------------------------
(* C28: the too-long loop of ensureDistanceRange(rooms, entrance, 5, 7) runs while the
   largest entrance distance is above 7, and after every shortcut it adds the largest
   entrance distance over all rooms is 5 or more *)
C28_NotTooShort ==
  [][pc = "long" /\ edgesOf' # edgesOf =>
       /\ MaxOf({entranceDistance(id) : id \in roomIds}) > 7
       /\ MaxOf({entranceDistance(id)' : id \in roomIds}) >= 5]_vars

\* the loop has added a shortcut; a room with several connections lies 4 from the
\* entrance and other rooms lie 5 or more from it
C28_Witness ==
  /\ pc = "long" /\ attempts > 0
  /\ \E id \in roomIds : /\ entranceDistance(id) = MinDist - 1
                          /\ Len(find(rooms, id).connections) > 1
  /\ \E id \in roomIds : entranceDistance(id) >= MinDist

----------------------------------------------------------------------------
(* useGame: the hook that plays a dungeon and keeps the progress of the day.  A
   Dungeon object is named by the seed it was generated from; the dungeons the hook
   asks for are generated first, by the steps of generateDungeon and generateClues
   above, and kept under their seeds *)

MaxSteps == 5

\* `practice-${Date.now()}-${Math.random()}`
PracticeSeeds == {<<112, 114, 97, 99, 116, 105, 99, 101, 45, 49, 45, 48, 46, 53>>}

\* the day the hook is mounted on and a later day the tab is still open on
GameDays ==
  {<<isoDate(2026, 1, 1), isoDate(2046, 10, 1)>>,
   <<isoDate(2026, 1, 2), isoDate(2026, 1, 3)>>}

\* getTodayDateString
getTodayDateString == clock[1]

GameInit ==
  /\ \E g \in GameDays : \E s \in PracticeSeeds :
       /\ clock = g
       /\ queue = <<g[1], s, g[2]>>
       /\ date = g[1]
  /\ pc = "start"
  /\ seed = <<0, 0>>
  /\ roomCount = 0
  /\ rooms = <<>>
  /\ usedPositions = {}
  /\ i = 0
  /\ attempts = 0
  /\ extraConnections = 0
  /\ treasureId = -1
  /\ deadEndCount = 0
  /\ candidateParents = <<>>
  /\ dragonId = -1
  /\ firstDeadEnd = 0
  /\ clueSeed = <<0, 0>>
  /\ clueRooms = <<>>
  /\ attempt = 0
  /\ lastClues = <<>>
  /\ run = 1
  /\ earlier = <<>>
  /\ call = [op |-> "none"]
  /\ result = FALSE
  /\ dateString = <<>>
  /\ lastDateRef = <<>>
  /\ dungeonShown = <<>>
  /\ gameState = noGame
  /\ isPractice = FALSE
  /\ dailyStateRef = <<>>
  /\ storage = <<>>
  /\ generated = <<>>
  /\ steps = 0

\* generateDungeon(seed) and generateClues(dungeon, seed) have returned for the seed at
\* the head of the queue: what they returned is kept, and the next seed is generated
Generated ==
  /\ pc = "done"
  /\ queue # <<>>
  /\ generated' = (date :> resultOf) @@ generated
  /\ queue' = Tail(queue)
  /\ IF Tail(queue) # <<>>
     THEN /\ date' = queue[2]
          /\ pc' = "start"
          /\ seed' = <<0, 0>>
          /\ roomCount' = 0
          /\ rooms' = <<>>
          /\ usedPositions' = {}
          /\ i' = 0
          /\ attempts' = 0
          /\ extraConnections' = 0
          /\ treasureId' = -1
          /\ deadEndCount' = 0
          /\ candidateParents' = <<>>
          /\ dragonId' = -1
          /\ firstDeadEnd' = 0
          /\ clueSeed' = <<0, 0>>
          /\ clueRooms' = <<>>
          /\ attempt' = 0
          /\ lastClues' = <<>>
     ELSE UNCHANGED <<dungeonVars, clueSeed, clueRooms, attempt, lastClues>>
  /\ UNCHANGED <<run, earlier, utilVars>>
  /\ UNCHANGED <<clock, dateString, lastDateRef, dungeonShown, gameState, isPractice,
                 dailyStateRef, storage, steps>>

\* the Dungeon object of a seed
dungeonOfSeed(s) == generated[s].dungeon

\* saveGameState: the SavedGameState written under GAME_STATE_KEY
saveGameState(ds, state) ==
  <<[date |-> ds, currentRoomId |-> state.currentRoomId,
     visitedRoomIds |-> state.visitedRoomIds, moveCount |-> state.moveCount,
     hasWon |-> state.hasWon, hasLost |-> state.hasLost]>>

\* loadGameState: what is stored when its date is the one asked for, <<>> for null
loadGameState(ds) ==
  IF storage = <<>> THEN <<>>
  ELSE IF storage[1].date # ds THEN <<>>
  ELSE storage

\* createPracticeState(dungeon, seed): a game that starts at the entrance
createPracticeState(s, sd) ==
  [dungeon |-> s, currentRoomId |-> dungeonOfSeed(s).entranceId,
   visitedRoomIds |-> <<dungeonOfSeed(s).entranceId>>, moveCount |-> 0,
   hasWon |-> dungeonOfSeed(s).entranceId = dungeonOfSeed(s).treasureId,
   hasLost |-> FALSE, clues |-> sd]

\* createInitialState(dungeon, dateString): the saved progress of the date when there
\* is some, a game at the entrance otherwise
createInitialState(s, ds) ==
  LET saved == loadGameState(ds)
  IN  IF saved # <<>>
      THEN [dungeon |-> s, currentRoomId |-> saved[1].currentRoomId,
            visitedRoomIds |-> saved[1].visitedRoomIds,
            moveCount |-> saved[1].moveCount, hasWon |-> saved[1].hasWon,
            hasLost |-> saved[1].hasLost, clues |-> ds]
      ELSE createPracticeState(s, ds)

\* the hook is rendered: every seed was generated and useGame was called
mounted == queue = <<>> /\ dateString # <<>>

\* useGame called for the first time, or again after the page was loaded anew
Mount ==
  /\ pc = "done" /\ queue = <<>>
  /\ dateString = <<>> \/ steps < MaxSteps
  /\ steps' = IF dateString = <<>> THEN steps ELSE steps + 1
  /\ dateString' = getTodayDateString
  /\ lastDateRef' = getTodayDateString
  /\ dungeonShown' = getTodayDateString
  /\ gameState' = createInitialState(getTodayDateString, getTodayDateString)
  /\ isPractice' = FALSE
  /\ dailyStateRef' = <<>>
  /\ UNCHANGED <<clock, storage, generated, queue>>
  /\ UNCHANGED <<dungeonVars, clueVars, utilVars>>

\* the day ends
Midnight ==
  /\ pc = "done" /\ queue = <<>>
  /\ Len(clock) > 1
  /\ clock' = Tail(clock)
  /\ UNCHANGED <<dateString, lastDateRef, dungeonShown, gameState, isPractice,
                 dailyStateRef, storage, generated, queue, steps>>
  /\ UNCHANGED <<dungeonVars, clueVars, utilVars>>

\* checkDate, on the interval or when the tab becomes visible
CheckDate ==
  /\ mounted
  /\ dateString # getTodayDateString => steps < MaxSteps
  /\ steps' = IF dateString # getTodayDateString THEN steps + 1 ELSE steps
  /\ dateString' = IF dateString # getTodayDateString THEN getTodayDateString
                   ELSE dateString
  /\ UNCHANGED <<clock, lastDateRef, dungeonShown, gameState, isPractice,
                 dailyStateRef, storage, generated, queue>>
  /\ UNCHANGED <<dungeonVars, clueVars, utilVars>>

\* the effect on dateString: the dungeon of the new date replaces what is shown
DateEffect ==
  /\ mounted
  /\ dateString # lastDateRef
  /\ lastDateRef' = dateString
  /\ dungeonShown' = dateString
  /\ gameState' = createInitialState(dateString, dateString)
  /\ UNCHANGED <<clock, dateString, isPractice, dailyStateRef, storage, generated,
                 queue, steps>>
  /\ UNCHANGED <<dungeonVars, clueVars, utilVars>>

\* currentRoom: the room of the dungeon shown with the id of the current room, <<>>
\* for null
currentRoom ==
  LET rs == dungeonOfSeed(dungeonShown).rooms
      at == {k \in DOMAIN rs : rs[k].id = gameState.currentRoomId}
  IN  IF at = {} THEN <<>> ELSE <<rs[MinOf(at)]>>

\* canMoveTo without the test of hasWon and hasLost
canMoveAfterEnd(roomId) ==
  IF currentRoom = <<>> THEN FALSE
  ELSE Includes(currentRoom[1].connections, roomId)

\* canMoveTo
canMoveTo(roomId) ==
  IF gameState.hasWon \/ gameState.hasLost THEN FALSE
  ELSE IF currentRoom = <<>> THEN FALSE
  ELSE Includes(currentRoom[1].connections, roomId)

\* new Set(prev.visitedRoomIds).add(roomId): the ids in the order they were added
addVisited(visited, roomId) ==
  IF Includes(visited, roomId) THEN visited ELSE Append(visited, roomId)

\* moveToRoom(roomId)
moveToRoom(roomId) ==
  /\ mounted
  /\ IF ~canMoveTo(roomId)
     THEN UNCHANGED <<gameState, storage, steps>>
     ELSE /\ steps < MaxSteps
          /\ steps' = steps + 1
          /\ gameState' =
               [gameState EXCEPT
                  !.currentRoomId = roomId,
                  !.visitedRoomIds = addVisited(gameState.visitedRoomIds, roomId),
                  !.moveCount = gameState.moveCount + 1,
                  !.hasWon = roomId = dungeonOfSeed(dungeonShown).treasureId,
                  !.hasLost = roomId = dungeonOfSeed(dungeonShown).dragonId]
          /\ storage' = IF ~isPractice THEN saveGameState(dateString, gameState')
                        ELSE storage
  /\ UNCHANGED <<clock, dateString, lastDateRef, dungeonShown, isPractice,
                 dailyStateRef, generated, queue>>
  /\ UNCHANGED <<dungeonVars, clueVars, utilVars>>

\* startPractice
StartPractice ==
  /\ mounted
  /\ steps < MaxSteps
  /\ steps' = steps + 1
  /\ dailyStateRef' = <<[dungeon |-> dungeonShown, gameState |-> gameState]>>
  /\ \E s \in PracticeSeeds :
       /\ dungeonShown' = s
       /\ gameState' = createPracticeState(s, s)
  /\ isPractice' = TRUE
  /\ UNCHANGED <<clock, dateString, lastDateRef, storage, generated, queue>>
  /\ UNCHANGED <<dungeonVars, clueVars, utilVars>>

\* tryAnother
TryAnother ==
  /\ mounted
  /\ steps < MaxSteps
  /\ steps' = steps + 1
  /\ \E s \in PracticeSeeds :
       /\ dungeonShown' = s
       /\ gameState' = createPracticeState(s, s)
  /\ UNCHANGED <<clock, dateString, lastDateRef, isPractice, dailyStateRef, storage,
                 generated, queue>>
  /\ UNCHANGED <<dungeonVars, clueVars, utilVars>>

\* backToDaily
BackToDaily ==
  /\ mounted
  /\ steps < MaxSteps
  /\ steps' = steps + 1
  /\ IF dailyStateRef # <<>>
     THEN /\ dungeonShown' = dailyStateRef[1].dungeon
          /\ gameState' = dailyStateRef[1].gameState
     ELSE UNCHANGED <<dungeonShown, gameState>>
  /\ isPractice' = FALSE
  /\ UNCHANGED <<clock, dateString, lastDateRef, dailyStateRef, storage, generated,
                 queue>>
  /\ UNCHANGED <<dungeonVars, clueVars, utilVars>>

\* the ids a caller may pass to moveToRoom: those of the rooms shown and one more
askedRooms == 0..Len(dungeonOfSeed(dungeonShown).rooms)

\* moveToRoom called with some id
MoveToRoom == mounted /\ \E roomId \in askedRooms : moveToRoom(roomId)

GameNext ==
  \/ Begin \/ Grow \/ StartExtras \/ ExtraEdge \/ Loops \/ Entrance
  \/ RemoveShortcut \/ ShortDone \/ Extend \/ ExtendDone \/ AddShortcut \/ LongDone
  \/ PlaceTreasure \/ StartDeadEnds \/ AddDeadEnd \/ PlaceDragon
  \/ StartClues \/ ClueAttempt \/ Generated
  \/ Mount \/ Midnight \/ CheckDate \/ DateEffect
  \/ MoveToRoom \/ StartPractice \/ TryAnother \/ BackToDaily

GameSpec == GameInit /\ [][GameNext]_vars

----------------------------------------------------------------------------
(* C29: a call moveToRoom(r) of useGame that changes the state is made in a game
   neither won nor lost, with r among the connections of the current room; it makes r
   the current room, adds r to the visited rooms, counts one move more, and sets hasWon
   exactly when r is the treasure room and hasLost exactly when r is the dragon room.
   In every state of a mounted hook the current room is among the visited rooms and
   hasWon and hasLost are not both true *)
C29_MoveRule ==
  [][/\ mounted =>
          \A r \in askedRooms :
            moveToRoom(r) =>
              /\ ~gameState.hasWon /\ ~gameState.hasLost
              /\ \E room \in Range(generated[gameState.dungeon].dungeon.rooms) :
                   /\ room.id = gameState.currentRoomId
                   /\ r \in Range(room.connections)
              /\ gameState'.currentRoomId = r
              /\ Range(gameState'.visitedRoomIds)
                   = Range(gameState.visitedRoomIds) \cup {r}
              /\ gameState'.moveCount = gameState.moveCount + 1
              /\ gameState'.hasWon
                   <=> r = generated[gameState.dungeon].dungeon.treasureId
              /\ gameState'.hasLost
                   <=> r = generated[gameState.dungeon].dungeon.dragonId
     /\ mounted' =>
          /\ gameState'.currentRoomId \in Range(gameState'.visitedRoomIds)
          /\ ~(gameState'.hasWon /\ gameState'.hasLost)]_vars

\* the treasure room is entered after moves through other rooms: the game is won
C29_Witness ==
  /\ mounted /\ gameState.hasWon /\ ~gameState.hasLost
  /\ gameState.moveCount >= 4
  /\ gameState.currentRoomId = generated[gameState.dungeon].dungeon.treasureId

----------------------------------------------------------------------------
(* C30: whatever the order of moveToRoom, startPractice, tryAnother, backToDaily and
   the date check of useGame, a game state written to storage under a date was
   reached by moves in the dungeon generated from that date *)
C30_SavedInOwnDungeon ==
  [][storage' # storage => storage'[1].date = gameState'.dungeon]_vars

====
